---------------------------- MODULE Spec2Model ----------------------------
(***************************************************************************)
(* Email-to-tweet automation (the2hourclo/email-to-tweet-railway).         *)
(*                                                                         *)
(* Text is modelled character by character: a JavaScript string is a       *)
(* sequence of one-character strings, so lengths, substring(), trim(),     *)
(* endsWith(), includes() and the regular expressions of the source are    *)
(* computed on the characters themselves.                                  *)
(***************************************************************************)
EXTENDS Integers, Sequences, FiniteSets, TLC

VARIABLES
    \* CTA link post-processing (part_001:430-433, index.js:431-434)
    version,      \* which generateTweetsWithFullStructure is running
    envLink,      \* process.env.NEWSLETTER_LINK, or Unset
    cta,          \* concept.cta, overwritten in place by the post-processing
    ctaPrev,      \* concept.cta before the last post-processing pass
    linkPasses,   \* number of post-processing passes made over concept.cta
    \* EnhancedContentGenerator.finalValidation
    tweetData,    \* the batch handed to / returned by finalValidation
    tweetDataPrev,\* the batch before the last finalValidation
    valPasses,    \* number of finalValidation passes made over tweetData
    \* extractJSON
    text,         \* the raw response text handed to extractJSON
    extraction,   \* what extractJSON returned or threw, NotRun before the call
    \* concept parsers
    resultText,   \* the raw response text handed to the concept parser
    sections,     \* the concept sections the response was written with
    parsed,       \* the batch the generator returned (done), or the error it threw
    \* webhook and pipeline runs
    responses,    \* per webhook request, the HTTP responses sent on it
    runs,         \* per webhook request, the processEmailAutomation it started
    shortform,    \* the pages of the Short Form database
    \* generation
    gen           \* the generateTweetsWithEnhancedQuality call of one run

linkVars == <<version, envLink, cta, ctaPrev, linkPasses>>
valVars  == <<tweetData, tweetDataPrev, valPasses>>
extVars  == <<text, extraction>>
parseVars == <<resultText, sections, parsed>>
pipeVars == <<responses, runs, shortform>>
genVars  == <<gen>>
vars     == <<linkVars, valVars, extVars, parseVars, pipeVars, genVars>>

-----------------------------------------------------------------------------
(* Bounds of the model *)

\* a generated CTA is the concatenation of at most MaxSegs text segments
MaxSegs == 3
\* a CTA link normalizer is applied to a CTA at most MaxPasses times
MaxPasses == 2
\* a generated batch holds at most MaxConcepts concepts
MaxConcepts == 2
\* a raw response is made of at most MaxParts parts (prose, fenced blocks, objects)
MaxParts == 2

-----------------------------------------------------------------------------
(* JavaScript string primitives *)

Unset == "unset"

\* \s of a JavaScript regular expression, restricted to the characters used
Class ==
    [ Space |-> {" ", "\n", "\t"},
      Digit |-> {"0", "1", "2", "3", "4", "5", "6", "7", "8", "9"},
      Hash |-> {"#"} ]

IsSpace(c) == c \in Class.Space

\* String.prototype.substring(from, to) with 0-based bounds inside the string
Substring(s, from, to) ==
    LET t == IF to > Len(s) THEN Len(s) ELSE to
    IN  IF from >= t THEN <<>> ELSE SubSeq(s, from + 1, t)

\* does pattern p occur in s at 1-based position i
MatchAt(s, i, p) ==
    /\ i >= 1
    /\ i + Len(p) - 1 <= Len(s)
    /\ \A k \in 1..Len(p) : s[i + k - 1] = p[k]

\* String.prototype.endsWith
EndsWith(s, p) == Len(p) <= Len(s) /\ MatchAt(s, Len(s) - Len(p) + 1, p)

\* String.prototype.indexOf, 1-based; 0 when p does not occur
IndexOf(s, p) ==
    LET hits == {i \in 1..(Len(s) - Len(p) + 1) : MatchAt(s, i, p)}
    IN  IF hits = {} THEN 0 ELSE CHOOSE i \in hits : \A j \in hits : i <= j

\* String.prototype.includes
Includes(s, p) == Len(p) = 0 \/ IndexOf(s, p) > 0

\* String.prototype.replace(p, r) with a string pattern: first occurrence only
ReplaceFirst(s, p, r) ==
    LET i == IndexOf(s, p)
    IN  IF i = 0 THEN s
        ELSE SubSeq(s, 1, i - 1) \o r \o SubSeq(s, i + Len(p), Len(s))

\* String.prototype.trim
Trim(s) ==
    LET keep == {i \in 1..Len(s) : ~IsSpace(s[i])}
    IN  IF keep = {} THEN <<>>
        ELSE SubSeq(s, CHOOSE i \in keep : \A j \in 1..(i - 1) : IsSpace(s[j]),
                       CHOOSE i \in keep : \A j \in (i + 1)..Len(s) : IsSpace(s[j]))

\* s.replace(/[.!?]*$/, ''): the maximal run of . ! ? at the end is removed
StripTrailingPunct(s) ==
    LET ends == {i \in 0..Len(s) : \A k \in (i + 1)..Len(s) : s[k] \in {".", "!", "?"}}
    IN  SubSeq(s, 1, CHOOSE i \in ends : \A j \in ends : i <= j)

\* /https?:\/\/[^\s]+/ : length of the match starting at position i, 0 if none
UrlMatchLen(s, i) ==
    LET n == IF MatchAt(s, i, <<"h","t","t","p",":","/","/">>) THEN 7
             ELSE IF MatchAt(s, i, <<"h","t","t","p","s",":","/","/">>) THEN 8
             ELSE 0
        stops == {j \in (i + n)..(Len(s) + 1) : j = Len(s) + 1 \/ IsSpace(s[j])}
        stop == CHOOSE j \in stops : \A k \in stops : j <= k
    IN  IF n = 0 \/ stop = i + n THEN 0 ELSE stop - i

\* s.replace(/https?:\/\/[^\s]+/g, r): every match, left to right
RECURSIVE ReplaceUrls(_, _)
ReplaceUrls(s, r) ==
    LET starts == {i \in 1..Len(s) : UrlMatchLen(s, i) > 0}
    IN  IF starts = {} THEN s
        ELSE LET i == CHOOSE k \in starts : \A j \in starts : k <= j
             IN  SubSeq(s, 1, i - 1) \o r
                 \o ReplaceUrls(SubSeq(s, i + UrlMatchLen(s, i), Len(s)), r)

\* cta.match(/(https?:\/\/[^\s]+)/g) is not null
HasUrl(s) == \E i \in 1..Len(s) : UrlMatchLen(s, i) > 0

\* a run of n copies of character c
Pad(c, n) == [i \in 1..n |-> c]

-----------------------------------------------------------------------------
(* Text literals of the source *)

Literal ==
    [ Http |-> <<"h","t","t","p">>,
      PlaceholderNewsletter |->
          <<"[","N","E","W","S","L","E","T","T","E","R","_","L","I","N","K","]">>,
      PlaceholderLink |-> <<"[","l","i","n","k","]">>,
      ColonSpace |-> <<":"," ">>,
      Ellipsis |-> <<".",".",".">> ]

\* process.env.NEWSLETTER_LINK || '<default>': the default is
\* 'https://your-newsletter.com' in part_001 and
\* 'https://go.thepeakperformer.io/' in index.js
NewsletterLink(ver, env) ==
    IF env # Unset /\ env # <<>> THEN env
    ELSE IF ver = "part_001"
        THEN <<"h","t","t","p","s",":","/","/","y","o","u","r","-","n","e","w","s",
               "l","e","t","t","e","r",".","c","o","m">>
        ELSE <<"h","t","t","p","s",":","/","/","g","o",".","t","h","e","p","e","a",
               "k","p","e","r","f","o","r","m","e","r",".","i","o","/">>

-----------------------------------------------------------------------------
(* CTA link normalizers *)

ensureNewsletterLinkInCTA(c, env) ==
    LET newsletterLink == NewsletterLink("part_001", env)
    IN  IF EndsWith(c, newsletterLink) THEN c
        ELSE IF Includes(c, Literal.PlaceholderNewsletter)
            THEN ReplaceFirst(c, Literal.PlaceholderNewsletter, newsletterLink)
        ELSE IF Includes(c, Literal.PlaceholderLink)
            THEN ReplaceFirst(c, Literal.PlaceholderLink, newsletterLink)
        ELSE IF ~Includes(c, Literal.Http)
            THEN StripTrailingPunct(c) \o Literal.ColonSpace \o newsletterLink
        ELSE IF HasUrl(c) THEN ReplaceUrls(c, newsletterLink)
        ELSE c

forceCorrectNewsletterLink(c, env) ==
    LET correctLink == NewsletterLink("index", env)
        cleanCTA == StripTrailingPunct(Trim(ReplaceUrls(c, <<>>)))
    IN  cleanCTA \o Literal.ColonSpace \o correctLink

-----------------------------------------------------------------------------
(* EnhancedContentGenerator.finalValidation *)

MaxChars == 500
KeepChars == 497

\* mutant: the cut keeps 498 characters before the ellipsis
validatedPost_Keep498(post) ==
    IF Len(post) > MaxChars THEN Substring(post, 0, KeepChars + 1) \o Literal.Ellipsis
    ELSE post

\* post.length > 500 ? post.substring(0, 497) + '...' : post
validatedPost(post) ==
    IF Len(post) > MaxChars THEN Substring(post, 0, KeepChars) \o Literal.Ellipsis
    ELSE post

\* `${post.length}/500 ${post.length <= 500 ? '✅' : '❌'}`
validatedCharCount(post) ==
    <<Len(post), "/500", IF Len(post) <= MaxChars THEN "ok" ELSE "over">>

\* tweet.cta.length > 500 ? tweet.cta.substring(0, 497) + '...' : tweet.cta
validatedCTA(c) ==
    IF Len(c) > MaxChars THEN Substring(c, 0, KeepChars) \o Literal.Ellipsis
    ELSE c

validatedTweet(tweet) ==
    LET validatedPosts ==
            [i \in 1..Len(tweet.mainContent.posts) |->
                validatedPost(tweet.mainContent.posts[i])]
        validatedCharCounts ==
            [i \in 1..Len(validatedPosts) |-> validatedCharCount(validatedPosts[i])]
    IN  [tweet EXCEPT !.mainContent = [posts |-> validatedPosts,
                                       characterCounts |-> validatedCharCounts],
                      !.cta = validatedCTA(tweet.cta)]

finalValidation(data) ==
    [tweetConcepts |->
        [i \in 1..Len(data.tweetConcepts) |-> validatedTweet(data.tweetConcepts[i])]]

-----------------------------------------------------------------------------
(* extractJSON (index.js:1105-1148, EnhancedContentGenerator.extractJSON)

   A raw response is a sequence of lexical pieces, each standing for exactly
   the JavaScript text written in it ([fence] standing for three backquotes);
   the response text is their concatenation.  No regular expression of extractJSON can match across or
   inside the pieces other than as computed below. *)

\* the pieces; the three fences are three backquotes, alone or followed by
\* json / javascript
Piece ==
    [ LBrace |-> "{", RBrace |-> "}", Comma |-> ",",
      KeyValue |-> "\"a\":1", KeyColon |-> "\"k\":", Number |-> "1",
      FenceJson |-> "[fence]json", FenceJs |-> "[fence]javascript", Fence |-> "[fence]",
      Newline |-> "\n", Space |-> " ", ResponseMarker |-> "Response:", Word |-> "text" ]

\* a value JSON.parse returns: the number 1, or an object (a set of key/value pairs)
JsonNumber == [type |-> "number", n |-> 1, members |-> {}]
JsonObject(members) == [type |-> "object", n |-> 0, members |-> members]

NoParse == [ok |-> FALSE, value |-> JsonNumber, next |-> 0]

\* the JSON grammar over the pieces (white space already skipped):
\*   value  ::= 1 | { } | { member (, member)* }
\*   member ::= "a":1 | "k": value
RECURSIVE ParseValueAt(_, _), ParseMembersAt(_, _, _)
ParseValueAt(t, i) ==
    IF i > Len(t) THEN NoParse
    ELSE IF t[i] = Piece.Number THEN [ok |-> TRUE, value |-> JsonNumber, next |-> i + 1]
    ELSE IF t[i] = Piece.LBrace THEN
        IF i + 1 <= Len(t) /\ t[i + 1] = Piece.RBrace
        THEN [ok |-> TRUE, value |-> JsonObject({}), next |-> i + 2]
        ELSE ParseMembersAt(t, i + 1, {})
    ELSE NoParse

ParseMembersAt(t, i, members) ==
    IF i > Len(t) THEN NoParse
    ELSE LET m == IF t[i] = Piece.KeyValue
                      THEN [ok |-> TRUE, key |-> "a", value |-> JsonNumber, next |-> i + 1]
                  ELSE IF t[i] = Piece.KeyColon
                      THEN LET v == ParseValueAt(t, i + 1)
                           IN  [ok |-> v.ok, key |-> "k", value |-> v.value, next |-> v.next]
                  ELSE [ok |-> FALSE, key |-> "", value |-> JsonNumber, next |-> 0]
         IN  IF ~m.ok THEN NoParse
             ELSE LET added == {x \in members : x[1] # m.key} \cup {<<m.key, m.value>>}
                  IN  IF m.next <= Len(t) /\ t[m.next] = Piece.RBrace
                          THEN [ok |-> TRUE, value |-> JsonObject(added), next |-> m.next + 1]
                      ELSE IF m.next <= Len(t) /\ t[m.next] = Piece.Comma
                          THEN ParseMembersAt(t, m.next + 1, added)
                      ELSE NoParse

\* JSON.parse: the parsed value, or a SyntaxError (ok = FALSE)
JSONParse(s) ==
    LET t == SelectSeq(s, LAMBDA x : ~IsSpace(x))
        r == ParseValueAt(t, 1)
    IN  IF r.ok /\ r.next = Len(t) + 1 THEN [ok |-> TRUE, value |-> r.value]
        ELSE [ok |-> FALSE, value |-> JsonNumber]

NoMatch == [found |-> FALSE, body |-> <<>>]

FirstIndex(S) == CHOOSE i \in S : \A j \in S : i <= j
LastIndex(S) == CHOOSE i \in S : \A j \in S : i >= j

\* text.match(/[fence]json\s*([\s\S]*?)\s*[fence]/) and the same for javascript:
\* from the first opening fence to the next run of three backquotes
FencedBlock(s, fence) ==
    LET opens == {i \in 1..Len(s) : s[i] = fence}
    IN  IF opens = {} THEN NoMatch
        ELSE LET open == FirstIndex(opens)
                 closes == {j \in (open + 1)..Len(s) : s[j] \in {Piece.Fence, Piece.FenceJson, Piece.FenceJs}}
             IN  IF closes = {} THEN NoMatch
                 ELSE [found |-> TRUE,
                       body |-> Trim(SubSeq(s, open + 1, FirstIndex(closes) - 1))]

\* the greedy /\{[\s\S]*\}/ from position from on: first { to last }
BraceSpanFrom(s, from) ==
    LET lefts == {i \in from..Len(s) : s[i] = Piece.LBrace}
    IN  IF lefts = {} THEN NoMatch
        ELSE LET rights == {j \in (FirstIndex(lefts) + 1)..Len(s) : s[j] = Piece.RBrace}
             IN  IF rights = {} THEN NoMatch
                 ELSE [found |-> TRUE,
                       body |-> SubSeq(s, FirstIndex(lefts), LastIndex(rights))]

\* text.match(/\{[\s\S]*\}/)
ObjectSpan(s) == BraceSpanFrom(s, 1)

\* text.match(/(?:Response|Result|Output):\s*(\{[\s\S]*\})/i)
MarkerSpan(s) ==
    LET marks == {m \in 1..Len(s) :
                    /\ s[m] = Piece.ResponseMarker
                    /\ \E p \in (m + 1)..Len(s) :
                          /\ s[p] = Piece.LBrace
                          /\ \A q \in (m + 1)..(p - 1) : IsSpace(s[q])
                          /\ \E j \in (p + 1)..Len(s) : s[j] = Piece.RBrace}
    IN  IF marks = {} THEN NoMatch ELSE BraceSpanFrom(s, FirstIndex(marks) + 1)

\* no call made yet
NotRun == [ok |-> FALSE, value |-> JsonNumber, error |-> <<"not run">>]

Returned(v) == [ok |-> TRUE, value |-> v, error |-> <<>>]
\* throw new Error(`JSON extraction failed: ${parseError.message}`)
Thrown(message) == [ok |-> FALSE, value |-> JsonNumber,
                    error |-> <<"JSON extraction failed: ", message>>]

\* return JSON.parse(candidate), inside the inner try
ParseOrThrow(candidate) ==
    IF JSONParse(candidate).ok THEN Returned(JSONParse(candidate).value)
    ELSE Thrown("SyntaxError")

extractJSON(s) ==
    IF JSONParse(s).ok THEN Returned(JSONParse(s).value)
    ELSE IF FencedBlock(s, Piece.FenceJson).found THEN ParseOrThrow(FencedBlock(s, Piece.FenceJson).body)
    ELSE IF FencedBlock(s, Piece.FenceJs).found THEN ParseOrThrow(FencedBlock(s, Piece.FenceJs).body)
    ELSE IF ObjectSpan(s).found THEN ParseOrThrow(ObjectSpan(s).body)
    ELSE IF MarkerSpan(s).found THEN ParseOrThrow(MarkerSpan(s).body)
    ELSE Thrown("No valid JSON found in response")

-----------------------------------------------------------------------------
(* Inputs *)

\* sequences over S of length at most n
RECURSIVE SeqsUpTo(_, _)
SeqsUpTo(S, n) ==
    IF n = 0 THEN {<<>>}
    ELSE LET shorter == SeqsUpTo(S, n - 1)
         IN  shorter \cup {Append(q, x) : q \in {r \in shorter : Len(r) = n - 1}, x \in S}

\* the concatenation of a sequence of strings
RECURSIVE Concat(_)
Concat(parts) ==
    IF parts = <<>> THEN <<>> ELSE Head(parts) \o Concat(Tail(parts))

\* values of process.env.NEWSLETTER_LINK: not set, or 'http://n.io'
EnvLinks == {Unset, <<"h","t","t","p",":","/","/","n",".","i","o">>}

\* generated CTAs, made of pieces for the link in force; the parsers trim the
\* CTA they extract (part_001:557-560, index.js:608-609)
CtaInputs(link) ==
    LET CtaSegments ==
            { <<"G","o">>, <<" ">>, <<".">>, <<"!">>, link,
              <<"h","t","t","p",":","/","/","o">>,
              Literal.PlaceholderLink, Literal.PlaceholderNewsletter, Literal.Http }
    IN  {c \in {Concat(parts) : parts \in SeqsUpTo(CtaSegments, MaxSegs)} : Trim(c) = c}

\* what the generative model may return to finalValidation: concepts as the
\* stage prompts ask for them, with posts and CTAs on both sides of the limit
\* and characterCounts as claimed by the model
TweetDataInputs ==
    LET PostsPool ==
            { <<>>,
              <<Pad("a", 3)>>,
              <<Pad("b", MaxChars)>>,
              <<Pad("c", MaxChars + 1)>>,
              <<Pad("a", 3), Pad("c", MaxChars + 1)>>,
              <<Pad("d", MaxChars + 90), Pad("b", MaxChars)>> }
        LongCtaPool == { Pad("e", 4), Pad("f", MaxChars + 1),
                         Pad("g", MaxChars) \o NewsletterLink("index", Unset) }
        TweetPool ==
            { [concept |-> "c", strategy |-> "s",
               mainContent |-> [posts |-> ps,
                                characterCounts |-> [i \in 1..Len(ps) |-> <<0, "/500", "ok">>]],
               cta |-> c] : ps \in PostsPool, c \in LongCtaPool }
    IN  {[tweetConcepts |-> tc] : tc \in SeqsUpTo(TweetPool, MaxConcepts)}

-----------------------------------------------------------------------------
(* generateTweetsWithEnhancedQuality (part_003:244-287) and the stages of
   EnhancedContentGenerator.generateTweetsWithMultiPass: the names of the
   stages, and the call before it is made. *)

Stage == [Analyze  |-> "analyzeContent",
          Draft    |-> "generateInitialDraft",
          Assess   |-> "assessQuality",
          Refine   |-> "refineContent",
          Enhance  |-> "enhanceCTAs",
          Validate |-> "finalValidation",
          Fallback |-> "fallbackGeneration",
          Single   |-> "single pass",
          Full     |-> "generateTweetsWithFullStructure"]

\* no batch yet: a batch is known by the stage whose reply it was parsed
\* from, by whether it has the tweetConcepts array, and by whether
\* finalValidation went over it
NoBatch == [from |-> "none", shape |-> "none", validated |-> FALSE]

NotCalled ==
    [multi      |-> FALSE,      \* process.env.ENABLE_MULTIPASS === 'true'
     pc         |-> "idle",     \* the stage whose service call is awaited
     started    |-> <<>>,       \* the stages entered, in order
     calls      |-> [s \in {Stage[k] : k \in DOMAIN Stage} |-> 0],
     answers    |-> [s \in {Stage[k] : k \in DOMAIN Stage} |-> "none"],
     caught     |-> <<>>,       \* the errors caught on the way
     analysis   |-> [from |-> "none", complete |-> FALSE],
     assessment |-> [from |-> "none", needsRefinement |-> FALSE],
     initialDraft   |-> NoBatch,
     refinedContent |-> NoBatch,
     result     |-> NoBatch,    \* what the call returned
     outcome    |-> "pending",  \* "returned" or "thrown" at the end
     error      |-> ""]

-----------------------------------------------------------------------------
(* The parts of the program a specification does not exercise stay as they
   are before their first call. *)

Idle(parts) ==
    /\ IF "version" \in parts
           THEN version = "multipass" /\ envLink = Unset
           ELSE TRUE
    /\ IF "cta" \in parts
           THEN cta = <<>> /\ ctaPrev = <<>> /\ linkPasses = 0
           ELSE TRUE
    /\ IF "validate" \in parts
           THEN /\ tweetData = [tweetConcepts |-> <<>>]
                /\ tweetDataPrev = [tweetConcepts |-> <<>>]
                /\ valPasses = 0
           ELSE TRUE
    /\ IF "extract" \in parts
           THEN text = <<>> /\ extraction = NotRun
           ELSE TRUE
    /\ IF "parse" \in parts
           THEN /\ resultText = <<>>
                /\ sections = <<>>
                /\ parsed = [done |-> FALSE, error |-> "", tweetConcepts |-> <<>>]
           ELSE TRUE
    /\ IF "pipeline" \in parts
           THEN responses = <<>> /\ runs = <<>> /\ shortform = {}
           ELSE TRUE
    /\ IF "generate" \in parts
           THEN gen = NotCalled
           ELSE TRUE

-----------------------------------------------------------------------------
(* CTA post-processing: tweetConcepts.forEach(concept => concept.cta = ...) *)

InitLink ==
    /\ version \in {"part_001", "index"}
    /\ envLink \in EnvLinks
    /\ cta \in CtaInputs(NewsletterLink(version, envLink))
    /\ ctaPrev = cta
    /\ linkPasses = 0
    /\ Idle({"validate", "extract", "parse", "pipeline", "generate"})

\* part_001:430-433
EnsureLinkPass ==
    /\ version = "part_001"
    /\ linkPasses < MaxPasses
    /\ cta' = ensureNewsletterLinkInCTA(cta, envLink)
    /\ ctaPrev' = cta
    /\ linkPasses' = linkPasses + 1
    /\ UNCHANGED <<version, envLink, valVars, extVars, parseVars, pipeVars, genVars>>

\* index.js:431-434
ForceLinkPass ==
    /\ version = "index"
    /\ linkPasses < MaxPasses
    /\ cta' = forceCorrectNewsletterLink(cta, envLink)
    /\ ctaPrev' = cta
    /\ linkPasses' = linkPasses + 1
    /\ UNCHANGED <<version, envLink, valVars, extVars, parseVars, pipeVars, genVars>>

NextLink == EnsureLinkPass \/ ForceLinkPass

SpecLink == InitLink /\ [][NextLink]_vars

-----------------------------------------------------------------------------
(* Final validation pass *)

InitValidate ==
    /\ tweetData \in TweetDataInputs
    /\ tweetDataPrev = tweetData
    /\ valPasses = 0
    /\ Idle({"version", "cta", "extract", "parse", "pipeline", "generate"})

\* test-notion-page.js:540-578: finalValidation called on a batch
FinalValidationPass ==
    /\ version = "multipass"
    /\ valPasses = 0
    /\ tweetData' = finalValidation(tweetData)
    /\ tweetDataPrev' = tweetData
    /\ valPasses' = valPasses + 1
    /\ UNCHANGED <<linkVars, extVars, parseVars, pipeVars, genVars>>

SpecValidate == InitValidate /\ [][FinalValidationPass]_vars

-----------------------------------------------------------------------------
(* Raw responses handed to extractJSON *)

\* well-formed data
ValidBodies ==
    { <<Piece.LBrace, Piece.KeyValue, Piece.RBrace>>,
      <<Piece.LBrace, Piece.KeyColon, Piece.LBrace, Piece.KeyValue, Piece.RBrace, Piece.RBrace>> }

\* well-formed data but for one trailing comma before a closing brace
TrailingCommaBodies ==
    LET WithTrailingComma(body, p) ==
            SubSeq(body, 1, p - 1) \o <<Piece.Comma>> \o SubSeq(body, p, Len(body))
    IN  UNION { { WithTrailingComma(b, p) :
                    p \in {q \in 2..Len(b) : b[q] = Piece.RBrace /\ b[q - 1] # Piece.LBrace} } :
                b \in ValidBodies }

InFence(fence, body) == <<fence, Piece.Newline>> \o body \o <<Piece.Newline, Piece.Fence>>

\* parts on lines of their own
RECURSIVE JoinLines(_)
JoinLines(parts) ==
    IF parts = <<>> THEN <<>>
    ELSE IF Len(parts) = 1 THEN Head(parts)
    ELSE Head(parts) \o <<Piece.Newline>> \o JoinLines(Tail(parts))

\* the texts given to extractJSON: parts on lines of their own, a part being
\* a body, well-formed or not, bare, in a fenced block, or after 'Response:'
Responses ==
    LET Bodies == ValidBodies \cup TrailingCommaBodies
                  \cup { <<Piece.Number>>, <<Piece.Word>>, <<Piece.LBrace, Piece.KeyValue>> }
        Parts ==
            Bodies
            \cup {InFence(f, b) : f \in {Piece.FenceJson, Piece.FenceJs, Piece.Fence},
                                  b \in Bodies}
            \cup {<<Piece.ResponseMarker, Piece.Space>> \o b : b \in Bodies}
    IN  {JoinLines(parts) : parts \in SeqsUpTo(Parts, MaxParts)}

\* otherwise valid data, in a fenced block, with one trailing comma
TrailingCommaFenced ==
    {InFence(f, b) : f \in {Piece.FenceJson, Piece.FenceJs, Piece.Fence}, b \in TrailingCommaBodies}

InitExtract ==
    /\ text \in Responses
    /\ extraction = NotRun
    /\ Idle({"version", "cta", "validate", "parse", "pipeline", "generate"})

ExtractJSON ==
    /\ extraction = NotRun
    /\ extraction' = extractJSON(text)
    /\ UNCHANGED <<text, linkVars, valVars, parseVars, pipeVars, genVars>>

SpecExtract == InitExtract /\ [][ExtractJSON]_vars

-----------------------------------------------------------------------------
(* Regular-expression primitives of the concept parsers *)

\* single characters written by name: U+0060 (three of them fence a code
\* block), U+2705, U+274C and U+2014
Mark == [Backquote |-> "[backquote]", Check |-> "[check]", Cross |-> "[cross]",
         Dash |-> "[dash]"]

LowerCaseOf ==
    [ A |-> "a", B |-> "b", C |-> "c", D |-> "d", E |-> "e", F |-> "f", G |-> "g",
      H |-> "h", I |-> "i", J |-> "j", K |-> "k", L |-> "l", M |-> "m", N |-> "n",
      O |-> "o", P |-> "p", Q |-> "q", R |-> "r", S |-> "s", T |-> "t", U |-> "u",
      V |-> "v", W |-> "w", X |-> "x", Y |-> "y", Z |-> "z" ]

\* String.prototype.toLowerCase, and the /i flag, on one character
Lower(c) == IF c \in DOMAIN LowerCaseOf THEN LowerCaseOf[c] ELSE c

toLowerCase(s) == [i \in 1..Len(s) |-> Lower(s[i])]

\* does pattern p occur in s at position i, letter case ignored (/i)
MatchAtI(s, i, p) ==
    /\ i >= 1
    /\ i + Len(p) - 1 <= Len(s)
    /\ \A k \in 1..Len(p) : Lower(s[i + k - 1]) = Lower(p[k])

\* the positions where pattern p occurs in s, letter case ignored (/i)
IndexesOfI(s, p) ==
    LET lowered == toLowerCase(p)
    IN  {i \in 1..(Len(s) - Len(p) + 1) :
            \A k \in 1..Len(p) : Lower(s[i + k - 1]) = lowered[k]}

\* a greedy run X* from position i: the first position the run does not reach
RunEnd(s, i, class) ==
    CHOOSE j \in i..(Len(s) + 1) :
        /\ \A k \in i..(j - 1) : s[k] \in class
        /\ j = Len(s) + 1 \/ s[j] \notin class

\* the first line end at or after position i ([^\n]* and .* stop there)
LineEnd(s, i) ==
    FirstIndex({j \in i..(Len(s) + 1) : j = Len(s) + 1 \/ s[j] = "\n"})

\* s with the characters at the positions in removed taken out
RemoveAt(s, removed) ==
    LET at == SelectSeq([i \in 1..Len(s) |-> i], LAMBDA i : i \notin removed)
    IN  [k \in 1..Len(at) |-> s[at[k]]]

\* the k-th smallest element of a set of positions
Nth(S, k) == CHOOSE i \in S : Cardinality({j \in S : j < i}) = k - 1

\* the pieces of s that start at the positions in starts (a /g match whose
\* lazy body runs up to the next match or the end of s)
SlicesAt(s, starts) ==
    [k \in 1..Cardinality(starts) |->
        SubSeq(s, Nth(starts, k),
               IF k < Cardinality(starts) THEN Nth(starts, k + 1) - 1 ELSE Len(s))]

\* String.prototype.split('\n')
RECURSIVE SplitLines(_)
SplitLines(s) ==
    LET e == LineEnd(s, 1)
    IN  IF e > Len(s) THEN <<s>>
        ELSE <<SubSeq(s, 1, e - 1)>> \o SplitLines(SubSeq(s, e + 1, Len(s)))

\* parseInt of a run of decimal digits
RECURSIVE parseInt(_)
parseInt(ds) ==
    LET DigitValue(c) ==
            CASE c = "0" -> 0 [] c = "1" -> 1 [] c = "2" -> 2 [] c = "3" -> 3
              [] c = "4" -> 4 [] c = "5" -> 5 [] c = "6" -> 6 [] c = "7" -> 7
              [] c = "8" -> 8 [] c = "9" -> 9
    IN  IF ds = <<>> THEN 0
        ELSE 10 * parseInt(SubSeq(ds, 1, Len(ds) - 1)) + DigitValue(ds[Len(ds)])

\* a number in a template literal: `${n}`
RECURSIVE NumberText(_)
NumberText(n) ==
    LET d == <<"0", "1", "2", "3", "4", "5", "6", "7", "8", "9">>[(n % 10) + 1]
    IN  IF n < 10 THEN <<d>> ELSE NumberText(n \div 10) \o <<d>>

\* \s*#\d+: from position i: the position of the colon, 0 when it does not match
NumberSignEnd(s, i) ==
    LET h == RunEnd(s, i, Class.Space)
        d == RunEnd(s, h + 1, Class.Digit)
    IN  IF h > Len(s) \/ s[h] # "#" THEN 0
        ELSE IF d = h + 1 \/ d > Len(s) \/ s[d] # ":" THEN 0
        ELSE d

\* the words and labels the parsers' regular expressions look for
Label ==
    [ BlankLine |-> <<"\n","\n">>,
      MainContent |-> <<"M","a","i","n"," ","C","o","n","t","e","n","t",":">>,
      SingleAhaMoment |->
          <<"S","i","n","g","l","e"," ","A","h","a"," ","M","o","m","e","n","t",":">>,
      WhatWhyWhere |-> <<"W","h","a","t","-","W","h","y","-","W","h","e","r","e">>,
      CharacterCount |->
          <<"C","h","a","r","a","c","t","e","r"," ","C","o","u","n","t">>,
      CtaTweet |-> <<"C","T","A"," ","T","w","e","e","t",":">>,
      CtaUniqueness |-> <<"C","T","A"," ","U","n","i","q","u","e","n","e","s","s">>,
      QualityValidationWord |->
          <<"Q","u","a","l","i","t","y"," ","V","a","l","i","d","a","t","i","o","n">>,
      QualityValidation |->
          <<"Q","u","a","l","i","t","y"," ","V","a","l","i","d","a","t","i","o","n",":">>,
      Post |-> <<"P","o","s","t">>,
      Tweet |-> <<"T","W","E","E","T">> ]

\* the defaults of a section that lacks a labelled sub-section
Default ==
    [ Content |->
          <<"C","o","n","t","e","n","t"," ","e","x","t","r","a","c","t","i","o","n"," ",
            "f","a","i","l","e","d">>,
      Aha |->
          <<"A","h","a"," ","m","o","m","e","n","t"," ","n","o","t"," ","i","d","e","n",
            "t","i","f","i","e","d">>,
      Cta |-> <<"C","T","A"," ","n","o","t"," ","f","o","u","n","d">>,
      Quality |->
          <<"Q","u","a","l","i","t","y"," ","v","a","l","i","d","a","t","i","o","n"," ",
            "n","o","t"," ","f","o","u","n","d">> ]

\* /TWEET\s*#\d+:/i at position i: the length of the match, 0 if none
TweetHeadingLen(s, i) ==
    IF ~MatchAtI(s, i, Label.Tweet) THEN 0
    ELSE LET e == NumberSignEnd(s, i + Len(Label.Tweet))
         IN  IF e = 0 THEN 0 ELSE e - i + 1

\* the positions where /TWEET\s*#\d+:/i matches
TweetHeadingStarts(s) == {i \in IndexesOfI(s, Label.Tweet) : TweetHeadingLen(s, i) > 0}

\* content.match(/TWEET\s*#\d+:[\s\S]*?(?=TWEET\s*#\d+:|$)/gi), <<>> for null
TweetMatches(s) == SlicesAt(s, TweetHeadingStarts(s))

\* s.match(/LABEL\s*([\s\S]*?)(?=STOP|...|$)/i)
LabelledText(s, label, stops) ==
    LET at == IndexesOfI(s, label)
    IN  IF at = {} THEN NoMatch
        ELSE LET b == RunEnd(s, FirstIndex(at) + Len(label), Class.Space)
                 stopAt == UNION {IndexesOfI(s, p) : p \in stops}
                 e == FirstIndex({j \in stopAt \cup {Len(s) + 1} : j >= b})
             IN  [found |-> TRUE, body |-> SubSeq(s, b, e - 1)]

\* s.match(/TWEET\s*#\d+:\s*([^\n]+)/i)
HeadingTitle(s) ==
    LET heads == TweetHeadingStarts(s)
        \* the title after the heading at i: \s* gives characters back until
        \* [^\n]+ has one character to match
        Title(i) ==
            LET a == i + TweetHeadingLen(s, i)
                b == RunEnd(s, a, Class.Space)
                back == {p \in a..(b - 1) : s[p] # "\n"}
            IN  IF b <= Len(s)
                THEN [found |-> TRUE, body |-> SubSeq(s, b, LineEnd(s, b) - 1)]
                ELSE IF back # {}
                THEN [found |-> TRUE,
                      body |-> SubSeq(s, LastIndex(back), LineEnd(s, LastIndex(back)) - 1)]
                ELSE NoMatch
        titled == {i \in heads : Title(i).found}
    IN  IF titled = {} THEN NoMatch ELSE Title(FirstIndex(titled))

-----------------------------------------------------------------------------
(* parseFullStructuredResponse (part_001:515-674) *)

\* `Tweet Concept ${conceptNum}`
TweetConceptTitle(conceptNum) == <<"T","w","e","e","t"," ","C","o","n","c","e","p","t"," ">> \o NumberText(conceptNum)

\* /Post\s+\d+:/i at position i: the length of the match, 0 if none
PostHeadingLen(s, i) ==
    IF ~MatchAtI(s, i, Label.Post) THEN 0
    ELSE LET a == i + Len(Label.Post)
             w == RunEnd(s, a, Class.Space)
             d == RunEnd(s, w, Class.Digit)
         IN  IF w = a \/ d = w \/ d > Len(s) \/ s[d] # ":" THEN 0 ELSE d - i + 1

\* part_001:655-674
parseMainContentPosts(contentText) ==
    LET postMatches ==
            SlicesAt(contentText,
                     {i \in IndexesOfI(contentText, Label.Post) :
                         PostHeadingLen(contentText, i) > 0})
        \* match.replace(/Post\s+\d+:\s*/i, '').trim()
        postContent(match) ==
            Trim(SubSeq(match, RunEnd(match, PostHeadingLen(match, 1) + 1, Class.Space),
                        Len(match)))
    IN  IF Len(postMatches) > 1
        THEN [k \in 1..Len(postMatches) |-> postContent(postMatches[k])]
        ELSE <<contentText>>

\* cta.replace(/\n+/g, ' '): every run of line feeds becomes one space
CollapseLineFeeds(s) ==
    LET kept == RemoveAt(s, {i \in 2..Len(s) : s[i] = "\n" /\ s[i - 1] = "\n"})
    IN  [k \in 1..Len(kept) |-> IF kept[k] = "\n" THEN " " ELSE kept[k]]

\* part_001:527-582, the callback of conceptMatches.forEach
parseConceptMatch(match, conceptNum) ==
    LET titleMatch == HeadingTitle(match)
        mainContentMatch ==
            LabelledText(match, Label.MainContent,
                         {Label.BlankLine \o Label.SingleAhaMoment, Label.SingleAhaMoment})
        mainContentText ==
            IF mainContentMatch.found THEN Trim(mainContentMatch.body)
            ELSE Default.Content
        ahaMatch ==
            LabelledText(match, Label.SingleAhaMoment,
                         {Label.BlankLine \o Label.WhatWhyWhere, Label.WhatWhyWhere})
        ctaMatch ==
            LabelledText(match, Label.CtaTweet,
                         {Label.BlankLine \o Label.CtaUniqueness, Label.CtaUniqueness,
                          Label.CharacterCount, Label.QualityValidationWord})
        ctaText == IF ctaMatch.found THEN Trim(ctaMatch.body) ELSE Default.Cta
        qualityMatch == LabelledText(match, Label.QualityValidation, {Label.BlankLine})
    IN  [ number |-> conceptNum,
          title |-> IF titleMatch.found THEN Trim(titleMatch.body)
                    ELSE TweetConceptTitle(conceptNum),
          mainContent |-> [posts |-> parseMainContentPosts(mainContentText)],
          ahamoment |-> IF ahaMatch.found THEN Trim(ahaMatch.body)
                        ELSE Default.Aha,
          cta |-> Trim(CollapseLineFeeds(ctaText)),
          qualityValidation |-> IF qualityMatch.found THEN Trim(qualityMatch.body)
                                ELSE Default.Quality ]

\* the fallback concept, had it kept the first 500 characters untrimmed
FallbackConcept_Untrimmed(content, env) ==
    [ number |-> 1,
      title |-> <<"F","a","l","l","b","a","c","k"," ","C","o","n","c","e","p","t">>,
      mainContent |-> [posts |-> <<Substring(content, 0, 500)>>],
      ahamoment |-> <<"U","n","a","b","l","e"," ","t","o"," ","i","d","e","n","t","i","f",
      "y"," ","s","p","e","c","i","f","i","c"," ","a","h","a"," ","m","o",
      "m","e","n","t"," ","f","r","o","m"," ","r","e","s","p","o","n","s",
      "e">>,
      cta |-> <<"G","e","t"," ","p","r","o","v","e","n"," ","s","y","s","t","e","m",
      "s"," ","f","o","r"," ","b","u","s","i","n","e","s","s"," ","e","f",
      "f","i","c","i","e","n","c","y",":"," ">>
              \o NewsletterLink("part_001", env),
      qualityValidation |-> <<"F","a","l","l","b","a","c","k"," ","c","o","n","c","e","p","t"," ",
      "-"," ","m","a","n","u","a","l"," ","r","e","v","i","e","w"," ","n",
      "e","e","d","e","d">> ]

\* part_001:606-626, the concept made of a response without any heading
FallbackConcept(content, env) ==
    [ number |-> 1,
      title |-> <<"F","a","l","l","b","a","c","k"," ","C","o","n","c","e","p","t">>,
      mainContent |-> [posts |-> <<Trim(Substring(content, 0, 500))>>],
      ahamoment |-> <<"U","n","a","b","l","e"," ","t","o"," ","i","d","e","n","t","i","f",
      "y"," ","s","p","e","c","i","f","i","c"," ","a","h","a"," ","m","o",
      "m","e","n","t"," ","f","r","o","m"," ","r","e","s","p","o","n","s",
      "e">>,
      cta |-> <<"G","e","t"," ","p","r","o","v","e","n"," ","s","y","s","t","e","m",
      "s"," ","f","o","r"," ","b","u","s","i","n","e","s","s"," ","e","f",
      "f","i","c","i","e","n","c","y",":"," ">>
              \o NewsletterLink("part_001", env),
      qualityValidation |-> <<"F","a","l","l","b","a","c","k"," ","c","o","n","c","e","p","t"," ",
      "-"," ","m","a","n","u","a","l"," ","r","e","v","i","e","w"," ","n",
      "e","e","d","e","d">> ]

\* part_001:515-652; whatWhyWhere and characterCounts, analysis fields that
\* are only displayed, are left out of the records
parseFullStructuredResponse(content, env) ==
    LET conceptMatches == TweetMatches(content)
    IN  IF Len(conceptMatches) > 0
        THEN [k \in 1..Len(conceptMatches) |-> parseConceptMatch(conceptMatches[k], k)]
        ELSE <<FallbackConcept(content, env)>>

-----------------------------------------------------------------------------
(* parseEnhancedStructuredResponse (index.js:466-662) *)

\* the analysis markers cleanMainContent removes up to the end of their line
AnalysisMarkers ==
    << <<"#"," ","P","h","a","s","e"," ","1",":">>,
       <<"#","#"," ","C","o","r","e"," ","M","e","s","s","a","g","e","/","T",
      "h","e","m","e">>,
       <<"#","#"," ","K","e","y"," ","I","n","s","i","g","h","t","s">>,
       <<"-"," ","F","r","e","e"," ","t","i","m","e">>,
       <<"-"," ","I","n","f","o","r","m","a","t","i","o","n">>,
       <<"-"," ","H","i","g","h","-","r","e","t","e","n","t","i","o","n">>,
       <<"-"," ","A","I"," ","e","x","e">>,
       <<"C","h","a","r","a","c","t","e","r"," ","C","o","u","n","t",":">> >>

\* s.replace(/LITERAL.*$/gm, '')
RemoveToLineEnd(s, literal) ==
    LET at == {m \in 1..Len(s) : MatchAt(s, m, literal)}
    IN  IF at = {} THEN s
        ELSE RemoveAt(s, {i \in 1..Len(s) : \E m \in at : m <= i /\ i < LineEnd(s, m)})

RECURSIVE RemoveMarkerLines(_, _)
RemoveMarkerLines(s, markers) ==
    IF markers = <<>> THEN s
    ELSE RemoveMarkerLines(RemoveToLineEnd(s, Head(markers)), Tail(markers))

\* ^ under the /m flag
LineStarts(s) == {i \in 1..Len(s) : i = 1 \/ s[i - 1] = "\n"}

\* the positions inside one of the ranges <<from, to>>
Within(s, ranges) == {i \in 1..Len(s) : \E r \in ranges : r[1] <= i /\ i <= r[2]}

\* s.replace(/^\s*-\s/gm, '') and s.replace(/^\s*\*\s/gm, '')
RemoveBullets(s, bullet) ==
    LET hits == {m \in LineStarts(s) :
                    LET e == RunEnd(s, m, Class.Space)
                    IN  e < Len(s) /\ s[e] = bullet /\ IsSpace(s[e + 1])}
    IN  IF hits = {} THEN s
        ELSE RemoveAt(s, Within(s, {<<m, RunEnd(s, m, Class.Space) + 1>> : m \in hits}))

\* s.replace(/^\s*#+ /gm, '')
RemoveHeadingMarks(s) ==
    LET MarkEnd(m) == RunEnd(s, RunEnd(s, m, Class.Space), Class.Hash)
        hits == {m \in LineStarts(s) :
                    /\ MarkEnd(m) > RunEnd(s, m, Class.Space)
                    /\ MarkEnd(m) <= Len(s)
                    /\ s[MarkEnd(m)] = " "}
    IN  IF hits = {} THEN s
        ELSE RemoveAt(s, Within(s, {<<m, MarkEnd(m)>> : m \in hits}))

\* index.js:631-662
cleanMainContent(content) ==
    LET cleaned ==
            Trim(RemoveHeadingMarks(
                 RemoveBullets(
                 RemoveBullets(RemoveMarkerLines(content, AnalysisMarkers), "-"), "*")))
        lines == SelectSeq(SplitLines(cleaned), LAMBDA line : Len(Trim(line)) > 20)
        substantial ==
            {k \in 1..Len(lines) :
                LET trimmed == Trim(lines[k])
                IN  /\ Len(trimmed) > 50
                    /\ Len(trimmed) < 500
                    /\ ~Includes(trimmed, <<"a","n","a","l","y","s","i","s">>)
                    /\ ~Includes(trimmed, <<"P","h","a","s","e">>)
                    /\ ~Includes(trimmed, <<"#","#">>)}
    IN  IF substantial # {} THEN Trim(lines[FirstIndex(substantial)])
        ELSE Trim(Substring(cleaned, 0, 400))

\* index.js:577-628; the result is <<concept>>, or <<>> for null
parseIndividualTweetConcept(match, conceptNum, env) ==
    LET TitleFrom(titleMatch) ==
            IF titleMatch.found THEN Trim(titleMatch.body)
            ELSE TweetConceptTitle(conceptNum)
        TextFrom(mainContentMatch) ==
            IF mainContentMatch.found THEN Trim(mainContentMatch.body) ELSE <<>>
        Concept(title, cleanContent, ahaMatch, ctaMatch) ==
            IF Includes(toLowerCase(title), <<"f","a","l","l","b","a","c","k">>) THEN <<>>
            ELSE IF Len(cleanContent) < 20 THEN <<>>
            ELSE << [ number |-> conceptNum,
                      title |-> title,
                      mainContent |-> [posts |-> <<cleanContent>>],
                      ahamoment |-> IF ahaMatch.found THEN Trim(ahaMatch.body)
                                    ELSE <<"I","n","s","i","g","h","t"," ","f","r","o","m"," ","c","o","n","c",
      "e","p","t"," ">> \o NumberText(conceptNum),
                      cta |-> IF ctaMatch.found THEN Trim(ctaMatch.body)
                              ELSE <<"G","e","t"," ","m","o","r","e"," ","i","n","s","i","g","h","t","s",
      ":"," ">> \o NewsletterLink("index", env),
                      qualityValidation |-> <<"P","a","r","s","e","d"," ","f","r","o","m"," ","s","t","r","u","c",
      "t","u","r","e","d"," ","r","e","s","p","o","n","s","e">> ] >>
    IN  Concept(TitleFrom(HeadingTitle(match)),
                cleanMainContent(
                    TextFrom(LabelledText(match, Label.MainContent, {Label.SingleAhaMoment}))),
                LabelledText(match, Label.SingleAhaMoment, {Label.WhatWhyWhere}),
                LabelledText(match, Label.CtaTweet, {Label.CharacterCount}))

\* index.js:488-499, the lines of an unstructured response that look like tweets
TweetLikeLines(content) ==
    LET lines == SelectSeq(SplitLines(content), LAMBDA line : Len(Trim(line)) > 10)
    IN  IF Len(lines) > 5
        THEN SelectSeq(lines, LAMBDA line :
                 LET trimmed == Trim(line)
                 IN  /\ Len(trimmed) > 50
                     /\ Len(trimmed) < 500
                     /\ ~MatchAt(trimmed, 1, <<"#">>)
                     /\ ~MatchAt(trimmed, 1, <<Mark.Check>>)
                     /\ ~Includes(trimmed, <<"C","h","a","r","a","c","t","e","r"," ","C","o","u","n","t",":">>))
        ELSE <<>>

\* index.js:505-522
TweetLikeConcept(line, number, env) ==
    [ number |-> number,
      title |-> TweetConceptTitle(number),
      mainContent |-> [posts |-> <<Trim(line)>>],
      ahamoment |-> <<"K","e","y"," ","i","n","s","i","g","h","t"," ","f","r","o","m"," ",
      "c","o","n","c","e","p","t"," ">> \o NumberText(number),
      cta |-> <<"G","e","t"," ","m","o","r","e"," ","i","n","s","i","g","h","t","s",
      " ","l","i","k","e"," ","t","h","i","s",":"," ">> \o NewsletterLink("index", env),
      qualityValidation |-> <<"P","a","r","s","e","d"," ","f","r","o","m"," ","u","n","s","t","r",
      "u","c","t","u","r","e","d"," ","c","o","n","t","e","n","t">> ]

\* index.js:527-548
ExtractedConcept(content, env) ==
    [ number |-> 1,
      title |-> <<"E","x","t","r","a","c","t","e","d"," ","C","o","n","c","e","p","t">>,
      mainContent |-> [posts |-> <<Trim(Substring(content, 0, 400))>>],
      ahamoment |-> <<"I","n","s","i","g","h","t"," ","e","x","t","r","a","c","t","e","d",
      " ","f","r","o","m"," ","r","e","s","p","o","n","s","e">>,
      cta |-> <<"G","e","t"," ","s","t","r","u","c","t","u","r","e","d"," ","i","n",
      "s","i","g","h","t","s",":"," ">> \o NewsletterLink("index", env),
      qualityValidation |-> <<"M","a","n","u","a","l"," ","e","x","t","r","a","c","t","i","o","n",
      " ","r","e","q","u","i","r","e","d">> ]

\* index.js:466-574; whatWhyWhere and characterCounts are left out as above
parseEnhancedStructuredResponse(content, env) ==
    LET Concepts(tweetMatches, tweetLikeLines) ==
            IF Len(tweetMatches) > 0
            THEN Concat([k \in 1..Len(tweetMatches) |->
                            parseIndividualTweetConcept(tweetMatches[k], k, env)])
            ELSE [k \in 1..(IF Len(tweetLikeLines) < 3 THEN Len(tweetLikeLines) ELSE 3) |->
                     TweetLikeConcept(tweetLikeLines[k], k, env)]
        OrExtracted(concepts) ==
            IF Len(concepts) = 0 THEN <<ExtractedConcept(content, env)>> ELSE concepts
    IN  OrExtracted(Concepts(TweetMatches(content), TweetLikeLines(content)))

-----------------------------------------------------------------------------
(* parseSkillMarkdownOutput (index.js:1390-1438) *)

\* three backquotes
CodeFence == <<Mark.Backquote, Mark.Backquote, Mark.Backquote>>

\* /##\s*TWEET\s*#(\d+):/ at position i: the position of the colon and group 1
SkillHeading(s, i) ==
    IF ~MatchAt(s, i, <<"#", "#">>) THEN [end |-> 0, digits |-> <<>>]
    ELSE LET t == RunEnd(s, i + 2, Class.Space)
             h == RunEnd(s, t + Len(Label.Tweet), Class.Space)
             e == NumberSignEnd(s, t + Len(Label.Tweet))
         IN  IF ~MatchAt(s, t, Label.Tweet) THEN [end |-> 0, digits |-> <<>>]
             ELSE IF e = 0 THEN [end |-> 0, digits |-> <<>>]
             ELSE [end |-> e, digits |-> SubSeq(s, h + 1, e - 1)]

\* /```\s*\n([\s\S]*?)\n```/ at position i: group 1 and the end of the match.
\* \s* gives line feeds back until a closing fence follows the opening line.
CodeBlockAt(s, i) ==
    IF ~MatchAt(s, i, CodeFence) THEN [found |-> FALSE, body |-> <<>>, end |-> 0]
    ELSE LET r == RunEnd(s, i + Len(CodeFence), Class.Space)
             Closers(n) == {j \in (n + 1)..Len(s) :
                               s[j] = "\n" /\ MatchAt(s, j + 1, CodeFence)}
             opens == {n \in (i + Len(CodeFence))..(r - 1) :
                           s[n] = "\n" /\ Closers(n) # {}}
         IN  IF opens = {} THEN [found |-> FALSE, body |-> <<>>, end |-> 0]
             ELSE LET n == LastIndex(opens)
                      j == FirstIndex(Closers(n))
                  IN  [found |-> TRUE, body |-> SubSeq(s, n + 1, j - 1),
                       end |-> j + Len(CodeFence)]

\* the while loop over codeBlockRegex.exec(content): posts.push(match[1].trim())
RECURSIVE CodeBlocksFrom(_, _)
CodeBlocksFrom(s, i) ==
    LET starts == {m \in i..Len(s) : CodeBlockAt(s, m).found}
    IN  IF starts = {} THEN <<>>
        ELSE LET block == CodeBlockAt(s, FirstIndex(starts))
             IN  <<Trim(block.body)>> \o CodeBlocksFrom(s, block.end + 1)

\* index.js:1397-1434, one turn of the loop: <<concept>>, or <<>> when the
\* section is skipped
parseSkillSection(digits, content) ==
    LET lines == SplitLines(Trim(content))
        title == Trim(lines[1])
        posts == CodeBlocksFrom(content, 1)
        lastPost == IF Len(posts) > 0 THEN posts[Len(posts)] ELSE <<>>
        mainPosts == SubSeq(posts, 1, Len(posts) - 1)
        \* `${p.length}/500 ${p.length <= 500 ? U+2705 : U+274C}`
        CharacterCount(p) ==
            NumberText(Len(p)) \o <<"/","5","0","0"," ">>
            \o <<IF Len(p) <= 500 THEN Mark.Check ELSE Mark.Cross>>
    IN  IF content = <<>> THEN <<>>
        ELSE IF Len(mainPosts) > 0
        THEN << [ number |-> parseInt(digits),
                  title |-> title,
                  concept |-> title,
                  strategy |-> <<"W","h","a","t","-","W","h","y","-","W","h","e","r","e"," ","c","y",
      "c","l","e"," ","w","i","t","h"," ","c","o","n","t","e","x","t","u",
      "a","l"," ","C","T","A">>,
                  mainContent |->
                      [posts |-> mainPosts,
                       characterCounts |->
                           [k \in 1..Len(mainPosts) |-> CharacterCount(mainPosts[k])]],
                  cta |-> lastPost,
                  ahamoment |-> mainPosts[1],
                  qualityValidation |->
                      <<"G","e","n","e","r","a","t","e","d"," ","b","y"," ","c","o","n","t",
      "e","n","t","-","t","o","-","t","w","e","e","t","s"," ","s","k","i",
      "l","l"," ","w","i","t","h"," ">>
                      \o NumberText(Len(mainPosts)) \o <<" ","p","o","s","t","s">> ] >>
        ELSE <<>>

\* index.js:1390-1438
parseSkillMarkdownOutput(markdown) ==
    LET heads == {i \in 1..Len(markdown) : SkillHeading(markdown, i).end > 0}
        \* markdown.split(/##\s*TWEET\s*#(\d+):/): the text after the k-th heading
        After(k) ==
            SubSeq(markdown, SkillHeading(markdown, Nth(heads, k)).end + 1,
                   IF k < Cardinality(heads) THEN Nth(heads, k + 1) - 1
                   ELSE Len(markdown))
    IN  Concat([k \in 1..Cardinality(heads) |->
                   parseSkillSection(SkillHeading(markdown, Nth(heads, k)).digits, After(k))])

-----------------------------------------------------------------------------
(* Raw responses handed to the concept parsers *)

\* a response holds at most MaxSections concept sections
MaxSections == 3

\* a line of 60 characters that reads like a post
PostLine == <<"S","y","s","t","e","m","s"," ","b","e","a","t"," ","e","f","f","o",
      "r","t"," ">> \o Pad("x", 40)

\* the kinds of section a structured response, or a skill output, is written with
SectionKinds(ver) ==
    IF ver = "skills"
    THEN {"thread", "single", "cta only", "no blocks", "numbered 7", "post heading"}
    ELSE {"complete", "split", "brief", "unlabelled", "fallback titled"}

\* the section of a kind under heading number n
SectionText(kind, n) ==
    LET Fenced(post) == CodeFence \o <<"\n">> \o post \o <<"\n">> \o CodeFence \o <<"\n","\n">>
    IN
    IF kind \in SectionKinds("skills") THEN
    CASE kind = "thread" ->
             <<"#","#"," ","T","W","E","E","T"," ","#">> \o NumberText(n) \o <<":"," ","I","d","e","a","\n","\n">>
             \o Fenced(<<"P","o","s","t"," ","o","n","e">>) \o Fenced(<<"P","o","s","t"," ","t","w","o">>) \o Fenced(<<"R","e","a","d"," ","m","o","r","e">>)
      [] kind = "single" ->
             <<"#","#"," ","T","W","E","E","T"," ","#">> \o NumberText(n) \o <<":"," ","I","d","e","a","\n","\n">>
             \o Fenced(<<"P","o","s","t"," ","o","n","e">>) \o Fenced(<<"R","e","a","d"," ","m","o","r","e">>)
      [] kind = "cta only" ->
             <<"#","#"," ","T","W","E","E","T"," ","#">> \o NumberText(n) \o <<":"," ","I","d","e","a","\n","\n">> \o Fenced(<<"R","e","a","d"," ","m","o","r","e">>)
      [] kind = "no blocks" ->
             <<"#","#"," ","T","W","E","E","T"," ","#">> \o NumberText(n) \o <<":"," ","I","d","e","a","\n","\n","J","u","s","t"," ","s","o","m","e",
      " ","p","r","o","s","e",".","\n","\n">>
      [] kind = "numbered 7" ->
             <<"#","#"," ","T","W","E","E","T"," ","#","7",":"," ","I","d","e","a",
      "\n","\n">> \o Fenced(<<"P","o","s","t"," ","o","n","e">>) \o Fenced(<<"R","e","a","d"," ","m","o","r","e">>)
      [] kind = "post heading" ->
             <<"#","#"," ","P","O","S","T"," ","#">> \o NumberText(n) \o <<":"," ","I","d","e","a","\n","\n">>
             \o Fenced(<<"P","o","s","t"," ","o","n","e">>) \o Fenced(<<"R","e","a","d"," ","m","o","r","e">>)
    ELSE
    <<"T","W","E","E","T"," ","#">> \o NumberText(n) \o <<":"," ">> \o
    CASE kind = "complete" ->
             <<"I","d","e","a","\n","M","a","i","n"," ","C","o","n","t","e","n","t",
      ":","\n">> \o PostLine
             \o <<"\n","\n","S","i","n","g","l","e"," ","A","h","a"," ","M","o","m","e",
      "n","t",":"," ","A","h","a","\n","\n","C","T","A"," ","T","w","e","e",
      "t",":"," ","G","o"," ","[","l","i","n","k","]","\n","\n","Q","u","a",
      "l","i","t","y"," ","V","a","l","i","d","a","t","i","o","n",":"," ",
      "o","k","\n","\n">>
      [] kind = "split" ->
             <<"I","d","e","a","\n","M","a","i","n"," ","C","o","n","t","e","n","t",
      ":","\n","P","o","s","t"," ","1",":"," ">> \o PostLine \o <<"\n","P","o","s","t"," ","2",":"," ">> \o PostLine
             \o <<"\n","\n","S","i","n","g","l","e"," ","A","h","a"," ","M","o","m","e",
      "n","t",":"," ","A","h","a","\n","\n","C","T","A"," ","T","w","e","e",
      "t",":"," ","G","o","\n","\n">>
      [] kind = "brief" ->
             <<"I","d","e","a","\n","M","a","i","n"," ","C","o","n","t","e","n","t",
      ":"," ","T","o","o"," ","s","h","o","r","t","\n","\n","S","i","n","g",
      "l","e"," ","A","h","a"," ","M","o","m","e","n","t",":"," ","A","h",
      "a","\n","\n","C","T","A"," ","T","w","e","e","t",":"," ","G","o",
      "\n","\n">>
      [] kind = "unlabelled" ->
             <<"I","d","e","a","\n","J","u","s","t"," ","s","o","m","e"," ","p","r",
      "o","s","e",".","\n","\n">>
      [] kind = "fallback titled" ->
             <<"F","a","l","l","b","a","c","k"," ","i","d","e","a","\n","M","a","i",
      "n"," ","C","o","n","t","e","n","t",":","\n">> \o PostLine \o <<"\n","\n","C","T","A"," ","T","w","e","e","t",":"," ","G","o","\n",
      "\n">>

\* the text that may precede the first heading
Preambles == { <<>>, <<"H","e","r","e"," ","a","r","e"," ","t","h","e"," ","t","w","e","e",
      "t","s",".","\n","\n">> }

\* a response written as the sections of the given kinds, numbered in order
ResponseText(preamble, kinds) ==
    preamble \o Concat([k \in 1..Len(kinds) |-> SectionText(kinds[k], k)])

\* responses without any heading
Prose ==
    LET \* a line of 12 characters
        ShortLine == <<"T","w","e","l","v","e"," ","c","h","a","r","s">>
    IN
    { <<>>,
      <<"H","e","l","l","o">>,
      <<" "," ","\n">>,
      Pad("x", 501),
      <<" ">> \o Pad("x", 501),
      Pad("x", 399) \o <<" ">> \o Pad("y", 200),
      PostLine \o <<"\n">> \o PostLine,
      Concat([k \in 1..6 |-> ShortLine \o <<"\n">>]),
      Concat([k \in 1..7 |-> (IF k \in {2, 4} THEN ShortLine ELSE PostLine) \o <<"\n">>]) }

-----------------------------------------------------------------------------
(* parseStructuredTweetResponse (part_005:439-507) *)

\* part_005:439-507: the sections of content.split(/TWEET #\d+:/), the first
\* one dropped only when it is blank, each made into a tweet record
parseStructuredTweetResponse(content) ==
    LET \* /TWEET #\d+:/ at position i: the position of its colon, 0 if none
        HeadingEnd(i) ==
            LET h == i + Len(Label.Tweet) + 1
                d == RunEnd(content, h + 1, Class.Digit)
            IN  IF ~MatchAt(content, i, Label.Tweet \o <<" ", "#">>) THEN 0
                ELSE IF d = h + 1 \/ d > Len(content) \/ content[d] # ":" THEN 0
                ELSE d
        heads == {i \in 1..Len(content) : HeadingEnd(i) > 0}
        n == Cardinality(heads)
        split == [k \in 1..(n + 1) |->
                    SubSeq(content,
                           IF k = 1 THEN 1 ELSE HeadingEnd(Nth(heads, k - 1)) + 1,
                           IF k <= n THEN Nth(heads, k) - 1 ELSE Len(content))]
        tweetSections == IF Trim(split[1]) = <<>> THEN Tail(split) ELSE split
        \* section.match(/LABEL\s*([\s\S]*?)(?=STOP|$)/)
        Match(section, label, stop) ==
            LET at == IndexOf(section, label)
                b == RunEnd(section, at + Len(label), Class.Space)
                e == FirstIndex({j \in b..(Len(section) + 1) :
                                    j = Len(section) + 1 \/ MatchAt(section, j, stop)})
            IN  IF at = 0 THEN NoMatch
                ELSE [found |-> TRUE, body |-> Trim(SubSeq(section, b, e - 1))]
        tweet(section, tweetNum) ==
            LET contentMatch ==
                    Match(section, Label.MainContent,
                          Label.BlankLine \o Label.SingleAhaMoment)
                ahaMatch ==
                    Match(section, Label.SingleAhaMoment,
                          Label.BlankLine \o Label.WhatWhyWhere)
                whatWhyWhereMatch ==
                    Match(section, Label.WhatWhyWhere \o <<" ","C","h","e","c","k",":">>,
                          Label.BlankLine \o Label.CharacterCount \o <<":">>)
                ctaMatch ==
                    Match(section, Label.CtaTweet,
                          Label.BlankLine \o Label.CharacterCount \o <<":">>)
            IN  [ number |-> tweetNum,
                  \* section.match(/^([^\n]+)/)
                  title |-> IF LineEnd(section, 1) > 1
                            THEN Trim(SubSeq(section, 1, LineEnd(section, 1) - 1))
                            ELSE <<"T","w","e","e","t"," ">> \o NumberText(tweetNum),
                  content |-> IF contentMatch.found THEN contentMatch.body
                              ELSE Default.Content,
                  aha_moment |-> IF ahaMatch.found THEN ahaMatch.body ELSE Default.Aha,
                  what_why_where |->
                      IF whatWhyWhereMatch.found THEN whatWhyWhereMatch.body
                      ELSE <<"C","y","c","l","e"," ","a","n","a","l","y","s","i","s"," ",
                             "m","i","s","s","i","n","g">>,
                  cta |-> IF ctaMatch.found THEN ctaMatch.body ELSE Default.Cta,
                  character_count |-> IF contentMatch.found THEN Len(contentMatch.body)
                                      ELSE 0 ]
    IN  [k \in 1..Len(tweetSections) |-> tweet(tweetSections[k], k)]

-----------------------------------------------------------------------------
(* The concept parsers at work: const tweetConcepts = parse...(content) *)

InitParse ==
    /\ version \in {"part_001", "index", "skills"}
    /\ Idle({"cta", "validate", "extract", "pipeline", "generate"})
    /\ \/ /\ sections = <<>>
          /\ resultText \in Prose
          /\ envLink \in EnvLinks
       \/ /\ envLink = Unset
          /\ sections \in SeqsUpTo(SectionKinds(version), MaxSections) \ {<<>>}
          /\ \E preamble \in Preambles : resultText = ResponseText(preamble, sections)
    /\ parsed = [done |-> FALSE, error |-> "", tweetConcepts |-> <<>>]

\* part_001:427-436: the service call of generateTweetsWithFullStructure is
\* answered with resultText; the text is parsed, every CTA goes through
\* ensureNewsletterLinkInCTA, and the batch is returned
ParseFull ==
    /\ version = "part_001"
    /\ ~parsed.done
    /\ LET PostProcessed(tweetConcepts) ==
               [k \in 1..Len(tweetConcepts) |->
                   [tweetConcepts[k] EXCEPT !.cta = ensureNewsletterLinkInCTA(@, envLink)]]
       IN  parsed' =
               [done |-> TRUE, error |-> "",
                tweetConcepts |->
                    PostProcessed(parseFullStructuredResponse(resultText, envLink))]
    /\ UNCHANGED <<linkVars, valVars, extVars, resultText, sections, pipeVars, genVars>>

\* index.js:428-438: the service call of generateTweetsWithFullStructure of
\* index.js is answered with resultText; the text is parsed, every CTA goes through
\* forceCorrectNewsletterLink, and the batch is returned
ParseEnhanced ==
    /\ version = "index"
    /\ ~parsed.done
    /\ LET Forced(tweetConcepts) ==
               [k \in 1..Len(tweetConcepts) |->
                   [tweetConcepts[k] EXCEPT !.cta = forceCorrectNewsletterLink(@, envLink)]]
       IN  parsed' =
               [done |-> TRUE, error |-> "",
                tweetConcepts |->
                    Forced(parseEnhancedStructuredResponse(resultText, envLink))]
    /\ UNCHANGED <<linkVars, valVars, extVars, resultText, sections, pipeVars, genVars>>

\* index.js:1497-1539: the body of the Skills API response is read and
\* resultText is the text of its content blocks joined.  A body without any
\* content block (index.js:1503-1505) and a body whose blocks hold no text
\* (index.js:1515-1517) make generateTweetsWithSkills throw, the catch of
\* index.js:1536-1539 throwing the error on; otherwise the text is parsed and
\* the batch is returned, empty or not, its CTAs as the parser left them
ParseSkill ==
    /\ version = "skills"
    /\ ~parsed.done
    /\ parsed.error = ""
    /\ \E blocks \in IF resultText = <<>> THEN {0, 1} ELSE {1} :
          parsed' =
              IF blocks = 0
              THEN [done |-> FALSE, error |-> "No content in Skills API response",
                    tweetConcepts |-> <<>>]
              ELSE IF resultText = <<>>
              THEN [done |-> FALSE, error |-> "No text content in Skills API response",
                    tweetConcepts |-> <<>>]
              ELSE [done |-> TRUE, error |-> "",
                    tweetConcepts |-> parseSkillMarkdownOutput(resultText)]
    /\ UNCHANGED <<linkVars, valVars, extVars, resultText, sections, pipeVars, genVars>>

NextParse == ParseFull \/ ParseEnhanced \/ ParseSkill

\* part_005:415
ParseStructured ==
    /\ version = "part_005"
    /\ ~parsed.done
    /\ parsed' = [done |-> TRUE, error |-> "", tweetConcepts |-> parseStructuredTweetResponse(resultText)]
    /\ UNCHANGED <<linkVars, valVars, extVars, resultText, sections, pipeVars, genVars>>

SpecParse == InitParse /\ [][NextParse]_vars

\* the parser of part_005 on the same responses
SpecStructured ==
    /\ version = "part_005"
    /\ envLink = Unset
    /\ Idle({"cta", "validate", "extract", "pipeline", "generate"})
    /\ \/ sections = <<>> /\ resultText \in Prose
       \/ /\ sections \in SeqsUpTo(SectionKinds(version), MaxSections) \ {<<>>}
          /\ \E preamble \in Preambles : resultText = ResponseText(preamble, sections)
    /\ parsed = [done |-> FALSE, error |-> "", tweetConcepts |-> <<>>]
    /\ [][ParseStructured]_vars

-----------------------------------------------------------------------------
(* The failed service call of a structured-response generator *)

\* part_001:439-458 and index.js:440-462: the service call fails and the
\* catch of the generator returns a batch of one concept written in the code
ReturnErrorConcept ==
    /\ version \in {"part_001", "index"}
    /\ ~parsed.done
    /\ \E message \in { <<"s","e","r","v","i","c","e"," ","d","o","w","n">> } :
          parsed' =
              [done |-> TRUE, error |-> "",
               tweetConcepts |->
                   IF version = "part_001"
                   THEN << [ number |-> 1,
                             title |-> <<"E","r","r","o","r"," ","i","n"," ","T","w","e","e","t"," ","G","e",
      "n","e","r","a","t","i","o","n">>,
                             mainContent |->
                                 [posts |-> << <<"E","r","r","o","r"," ","g","e","n","e","r","a","t","i","n","g"," ",
      "t","w","e","e","t","s",":"," ">> \o message >>],
                             ahamoment |-> <<"E","r","r","o","r"," ","o","c","c","u","r","r","e","d"," ","d","u",
      "r","i","n","g"," ","t","w","e","e","t"," ","g","e","n","e","r","a",
      "t","i","o","n">>,
                             cta |-> <<"E","r","r","o","r"," ","g","e","n","e","r","a","t","i","n","g"," ",
      "c","o","n","t","e","n","t","."," ","G","e","t"," ","r","e","l","i",
      "a","b","l","e"," ","a","u","t","o","m","a","t","i","o","n"," ","i",
      "n","s","i","g","h","t","s",":"," ">>
                                     \o NewsletterLink("part_001", envLink),
                             qualityValidation |-> <<"E","r","r","o","r"," ","-"," ","v","a","l","i","d","a","t","i","o",
      "n"," ","n","o","t"," ","c","o","m","p","l","e","t","e","d">> ] >>
                   ELSE << [ number |-> 1,
                             title |-> <<"A","I"," ","B","u","s","i","n","e","s","s"," ","E","f","f","i","c",
      "i","e","n","c","y"," ","T","w","e","e","t">>,
                             mainContent |->
                                 [posts |-> << <<"M","o","s","t"," ","b","u","s","i","n","e","s","s"," ","o","w","n",
      "e","r","s"," ","a","r","e"," ","d","r","o","w","n","i","n","g"," ",
      "i","n"," ","b","u","s","y"," ","w","o","r","k"," ","w","h","i","l",
      "e"," ","A","I"," ","c","o","u","l","d"," ","c","o","m","p","r","e",
      "s","s"," ","t","h","e","i","r"," ","o","p","e","r","a","t","i","o",
      "n","s"," ","f","r","o","m"," ","8"," ","h","o","u","r","s"," ","t",
      "o"," ","2"," ","f","o","c","u","s","e","d"," ","h","o","u","r","s",
      "."," ","T","h","e"," ","c","o","m","p","e","t","i","t","i","v","e",
      " ","a","d","v","a","n","t","a","g","e"," ","i","s","n","'","t"," ",
      "a","v","o","i","d","i","n","g"," ","A","I">>
                                               \o <<Mark.Dash>> \o <<"i","t","'","s"," ","m","a","s","t","e","r","i","n","g"," ","o","p",
      "e","r","a","t","i","o","n","a","l"," ","l","e","v","e","r","a","g",
      "e",".">> >>],
                             ahamoment |-> <<"A","I"," ","a","m","p","l","i","f","i","e","s"," ","e","x","p","e",
      "r","t","i","s","e"," ","r","a","t","h","e","r"," ","t","h","a","n",
      " ","r","e","p","l","a","c","i","n","g"," ","i","t">>,
                             cta |-> <<"U","n","d","e","r","s","t","a","n","d","i","n","g"," ","o","p","e",
      "r","a","t","i","o","n","a","l"," ","l","e","v","e","r","a","g","e",
      " ","i","s"," ","o","n","e"," ","t","h","i","n","g","."," ","H","a",
      "v","i","n","g"," ","t","h","e"," ","s","y","s","t","e","m","s"," ",
      "t","h","a","t"," ","a","c","t","u","a","l","l","y"," ","c","o","m",
      "p","r","e","s","s"," ","y","o","u","r"," ","w","o","r","k","d","a",
      "y"," ","i","s"," ","d","i","f","f","e","r","e","n","t","."," ","G",
      "e","t"," ","t","h","e"," ","c","o","m","p","l","e","t","e"," ","f",
      "r","a","m","e","w","o","r","k",":"," ">>
                                     \o NewsletterLink("index", envLink),
                             qualityValidation |-> <<"F","a","l","l","b","a","c","k"," ","c","o","n","c","e","p","t"," ",
      "-"," ","m","a","n","u","a","l"," ","r","e","v","i","e","w"," ","n",
      "e","e","d","e","d">> ] >>]
    /\ UNCHANGED <<linkVars, valVars, extVars, resultText, sections, pipeVars, genVars>>

-----------------------------------------------------------------------------
(* The webhook and the pipeline run it starts
   (index.js:1209-1374 and 1704-1996; part_003:77-242 and 455-704 is the
   same code but for the empty batch and the generation step).  The server
   of part_002:196-611 throws a ReferenceError while it loads (new Anthantic,
   part_002:208) and never registers its webhook; its page loop,
   createShortFormPages, is modelled as a function called on its own.

   A run is an async function: between two awaits it runs without
   interruption, and at an await the runs of other requests may take their
   steps.  Each action below is the answer to one awaited call together with
   the code that follows it up to the next await.  The generative service is
   called once per run: index.js calls the Skills API once and then reads
   the body of the response, part_003 with ENABLE_MULTIPASS unset makes its
   single-pass call; the calls of part_003 with ENABLE_MULTIPASS set are the
   subject of the generation section below.  The concepts of a batch have
   the fields the page builder reads. *)

\* at most MaxRuns webhook requests arrive
MaxRuns == 2

\* the pages of the workspace that a request may name
PageIds == {"p1", "p2", "p3"}

\* pageInfo.parent of a page: p1 and p2 are rows of the E-mails database
ParentDatabase(pageId) == IF pageId = "p3" THEN "other database" ELSE "E-mails"

\* req.body: data.id, page_id, id, notion_page_id, and one more string value
\* under another key; Unset for a key that is absent
Bodies ==
    LET Body(dataId, pageIdField, idField, notionPageId, other) ==
            [data_id |-> dataId, page_id |-> pageIdField, id |-> idField,
             notion_page_id |-> notionPageId, other |-> other]
    IN  { Body(Unset, Unset, Unset, Unset, Unset),
          Body("", Unset, Unset, Unset, "text"),
          Body("p1", Unset, Unset, Unset, Unset),
          Body("", "p2", Unset, Unset, Unset),
          Body("p2", "p1", Unset, Unset, Unset),
          Body(Unset, Unset, "p3", Unset, Unset),
          Body(Unset, Unset, Unset, "text", Unset),
          Body(Unset, Unset, Unset, Unset, "p1") }

\* index.js:1214-1241: the first field that is truthy, else the first string
\* value that has the format of a page id; Unset for null
ResolvePageId(body) ==
    LET Truthy(v) == v # Unset /\ v # ""
    IN  IF Truthy(body.data_id) THEN body.data_id
        ELSE IF Truthy(body.page_id) THEN body.page_id
        ELSE IF Truthy(body.id) THEN body.id
        ELSE IF Truthy(body.notion_page_id) THEN body.notion_page_id
        ELSE IF body.other \in PageIds THEN body.other
        ELSE Unset

\* tweetsData.tweetConcepts.length: the parser made no concept, one, or two
\* of the answer
BatchSizes == {0, 1, 2}

\* a request whose pipeline was not started
NotStarted ==
    [pageId |-> Unset, pc |-> "none", status |-> "not started", reason |-> "",
     existing |-> {}, calls |-> 0, concepts |-> 0, i |-> 0, attempts |-> 0,
     results |-> <<>>,
     \* index.js:1463-1497: fetch has answered and the body of its response
     \* has not been read yet
     fetched |-> FALSE,
     \* the runs for the same page id that had ended with status success when
     \* this one was started
     after |-> {}]

\* return { status, reason } / throw new Error(`Automation failed: ...`)
Finish(run, status, reason) ==
    [run EXCEPT !.pc = "done", !.status = status, !.reason = reason]

\* index.js:1327
AlreadyProcessed_MoreThanOne(results) == Cardinality(results) > 1

AlreadyProcessed_Never(results) == FALSE

AlreadyProcessed(results) == Cardinality(results) > 0

\* index.js:1714-1921 and 1989-1990: the loop test and the blocks of concept
\* i, up to the await of notion.pages.create; with no concept left
\* createFullStructurePages returns and the run reports success
NextConcept(run) ==
    IF run.i >= run.concepts THEN Finish(run, "success", "")
    ELSE [run EXCEPT !.pc = "create"]

\* index.js:1704-1712: createFullStructurePages throws on an empty batch;
\* part_003:455-462 goes into the loop
StartPages(run, ver) ==
    IF ver = "index" /\ run.concepts = 0
    THEN Finish(run, "failed", "No tweet concepts found in the generated data")
    ELSE NextConcept(run)

Webhook_RunsWithoutId ==
    /\ Len(runs) < MaxRuns
    /\ \E body \in Bodies :
          /\ responses' = Append(responses, <<[status |-> 400, page_id |-> Unset]>>)
          /\ runs' = Append(runs, [NotStarted EXCEPT !.pc = "retrieve",
                                                    !.status = "running"])
    /\ UNCHANGED <<shortform, linkVars, valVars, extVars, parseVars, genVars>>

\* app.post('/webhook'): 400 without a page id; else 200 and the run starts,
\* up to its await of notion.pages.retrieve
Webhook ==
    /\ Len(runs) < MaxRuns
    /\ \E body \in Bodies :
          LET pageId == ResolvePageId(body)
          IN  IF pageId = Unset
              THEN /\ responses' = Append(responses, <<[status |-> 400, page_id |-> Unset]>>)
                   /\ runs' = Append(runs, NotStarted)
              ELSE /\ responses' = Append(responses, <<[status |-> 200, page_id |-> pageId]>>)
                   /\ runs' = Append(runs, [NotStarted EXCEPT
                                 !.pageId = pageId,
                                 !.pc = "retrieve",
                                 !.status = "running",
                                 !.after = {q \in DOMAIN runs :
                                               /\ runs[q].pageId = pageId
                                               /\ runs[q].pc = "done"
                                               /\ runs[q].status = "success"}])
    /\ UNCHANGED <<shortform, linkVars, valVars, extVars, parseVars, genVars>>

RetrievePage_NoParentCheck(r) ==
    /\ runs[r].pc = "retrieve"
    /\ \/ runs' = [runs EXCEPT ![r] = Finish(@, "failed", "Notion Access Error")]
       \/ /\ runs[r].pageId \in PageIds
          /\ runs' = [runs EXCEPT ![r].pc = "query"]
    /\ UNCHANGED <<responses, shortform, linkVars, valVars, extVars, parseVars, genVars>>

\* index.js:1288-1312: notion.pages.retrieve answers, or throws
RetrievePage(r) ==
    /\ runs[r].pc = "retrieve"
    /\ \/ runs' = [runs EXCEPT ![r] = Finish(@, "failed", "Notion Access Error")]
       \/ /\ runs[r].pageId \in PageIds
          /\ runs' = [runs EXCEPT ![r] =
                        IF ParentDatabase(@.pageId) # "E-mails"
                        THEN Finish(@, "skipped", "Page not in E-mails database")
                        ELSE [@ EXCEPT !.pc = "query"]]
    /\ UNCHANGED <<responses, shortform, linkVars, valVars, extVars, parseVars, genVars>>

\* index.js:1317-1332: notion.databases.query answers with the derived pages
\* whose E-mails relation contains pageId, or throws
QueryExisting(r) ==
    /\ runs[r].pc = "query"
    /\ \/ runs' = [runs EXCEPT ![r] = Finish(@, "failed", "query failed")]
       \/ LET results == {page \in shortform : page.email = runs[r].pageId}
          IN  runs' = [runs EXCEPT ![r] =
                         IF AlreadyProcessed(results)
                         THEN Finish([@ EXCEPT !.existing = results],
                                     "skipped", "Email already processed")
                         ELSE [@ EXCEPT !.existing = results, !.pc = "content"]]
    /\ UNCHANGED <<responses, shortform, linkVars, valVars, extVars, parseVars, genVars>>

\* index.js:1336 and 1574-1615: getEmailContent answers, or throws
GetEmailContent(r) ==
    /\ runs[r].pc = "content"
    /\ \/ runs' = [runs EXCEPT ![r] = Finish(@, "failed", "Failed to extract email content")]
       \/ runs' = [runs EXCEPT ![r].pc = "prompt"]
    /\ UNCHANGED <<responses, shortform, linkVars, valVars, extVars, parseVars, genVars>>

GetPrompt_Waits(r) ==
    /\ runs[r].pc = "prompt"
    /\ UNCHANGED vars

\* index.js:1341 and 1617-1672: getPromptFromNotion always returns a prompt, the
\* simplified one when the read fails
GetPrompt(r) ==
    /\ runs[r].pc = "prompt"
    /\ runs' = [runs EXCEPT ![r].pc = "generate"]
    /\ UNCHANGED <<responses, shortform, linkVars, valVars, extVars, parseVars, genVars>>

\* index.js:1348 and 1463: fetch answers, or rejects and the run fails; the
\* run then waits for the body.  part_003:269-286 with ENABLE_MULTIPASS unset:
\* the one awaited anthropic.messages.create answers; the call or JSON.parse
\* of its text throws, or the batch is a list of concepts and
\* createFullStructurePages is entered
Generate(r) ==
    /\ runs[r].pc = "generate"
    /\ ~runs[r].fetched
    /\ \/ runs' = [runs EXCEPT ![r] =
                      Finish([@ EXCEPT !.calls = @ + 1], "failed", "generation failed")]
       \/ /\ version = "index"
          /\ runs' = [runs EXCEPT ![r].fetched = TRUE]
       \/ /\ version # "index"
          /\ \E n \in BatchSizes :
                runs' = [runs EXCEPT ![r] =
                           StartPages([@ EXCEPT !.calls = @ + 1, !.concepts = n], version)]
    /\ UNCHANGED <<responses, shortform, linkVars, valVars, extVars, parseVars, genVars>>

\* index.js:1491-1533: response.text() of a failed request or response.json()
\* answers; the request had failed, the body has no text, or reading it
\* rejects, and generateTweetsWithSkills throws; or parseSkillMarkdownOutput
\* gives the batch, empty or not, and createFullStructurePages is entered
ReadBody(r) ==
    /\ runs[r].pc = "generate"
    /\ runs[r].fetched
    /\ LET run == [runs[r] EXCEPT !.calls = @ + 1, !.fetched = FALSE]
       IN  \/ runs' = [runs EXCEPT ![r] = Finish(run, "failed", "generation failed")]
           \/ \E n \in BatchSizes :
                 runs' = [runs EXCEPT ![r] =
                            StartPages([run EXCEPT !.concepts = n], version)]
    /\ UNCHANGED <<responses, shortform, linkVars, valVars, extVars, parseVars, genVars>>

\* index.js:1921-1955: notion.pages.create for concept i answers: the page
\* is written and recorded in results, or the write is rejected and the
\* fallback write is made; createShortFormPages of part_002:563-598 has one
\* try around its loop and throws on the first rejected write
CreatePage(r) ==
    /\ runs[r].pc = "create"
    /\ LET run == [runs[r] EXCEPT !.attempts = @ + 1]
           page == [email |-> run.pageId, run |-> r, concept |-> run.i + 1, error |-> FALSE]
       IN  \/ /\ shortform' = shortform
              /\ runs' = [runs EXCEPT ![r] =
                            IF version = "part_002"
                            THEN Finish(run, "failed", "Failed to create pages in Notion")
                            ELSE [run EXCEPT !.pc = "fallback"]]
           \/ /\ shortform' = shortform \cup {page}
              /\ runs' = [runs EXCEPT ![r] =
                            NextConcept([run EXCEPT
                                !.results = Append(@, [concept |-> run.i + 1,
                                                       error |-> FALSE]),
                                !.i = @ + 1])]
    /\ UNCHANGED <<responses, linkVars, valVars, extVars, parseVars, genVars>>

CreateFallback_Retries(r) ==
    /\ runs[r].pc = "fallback"
    /\ LET run == [runs[r] EXCEPT !.attempts = @ + 1]
           page == [email |-> run.pageId, run |-> r, concept |-> run.i + 1, error |-> TRUE]
       IN  \/ /\ shortform' = shortform
              /\ runs' = [runs EXCEPT ![r] = [run EXCEPT !.pc = "create"]]
           \/ /\ shortform' = shortform \cup {page}
              /\ runs' = [runs EXCEPT ![r] =
                            NextConcept([run EXCEPT
                                !.results = Append(@, [concept |-> run.i + 1,
                                                       error |-> TRUE]),
                                !.i = @ + 1])]
    /\ UNCHANGED <<responses, linkVars, valVars, extVars, parseVars, genVars>>

\* index.js:1956-1987: the fallback notion.pages.create for concept i
\* answers; the loop goes on to the next concept whether it was written or rejected
CreateFallback(r) ==
    /\ runs[r].pc = "fallback"
    /\ LET run == [runs[r] EXCEPT !.attempts = @ + 1]
           page == [email |-> run.pageId, run |-> r, concept |-> run.i + 1, error |-> TRUE]
       IN  \/ /\ shortform' = shortform
              /\ runs' = [runs EXCEPT ![r] = NextConcept([run EXCEPT !.i = @ + 1])]
           \/ /\ shortform' = shortform \cup {page}
              /\ runs' = [runs EXCEPT ![r] =
                            NextConcept([run EXCEPT
                                !.results = Append(@, [concept |-> run.i + 1,
                                                       error |-> TRUE]),
                                !.i = @ + 1])]
    /\ UNCHANGED <<responses, linkVars, valVars, extVars, parseVars, genVars>>

InitPipeline ==
    /\ version \in {"index", "part_003"}
    /\ envLink = Unset
    /\ responses = <<>>
    /\ runs = <<>>
    /\ shortform = {}
    /\ Idle({"cta", "validate", "extract", "parse", "generate"})

NextPipeline ==
    \/ Webhook
    \/ \E r \in DOMAIN runs :
          \/ RetrievePage(r)
          \/ QueryExisting(r)
          \/ GetEmailContent(r)
          \/ GetPrompt(r)
          \/ Generate(r)
          \/ ReadBody(r)
          \/ CreatePage(r)
          \/ CreateFallback(r)

SpecPipeline == InitPipeline /\ [][NextPipeline]_vars

\* part_002:563-598: createShortFormPages(tweetsData, emailPageId) called on
\* its own, up to MaxRuns calls under way at once, each with a batch of
\* threads for a page; a call returns its results or throws
SpecShortForm ==
    /\ version = "part_002" /\ envLink = Unset
    /\ Idle({"cta", "validate", "extract", "parse", "generate"})
    /\ responses = <<>> /\ shortform = {}
    /\ runs \in SeqsUpTo({NextConcept([NotStarted EXCEPT !.pageId = pageId,
                                                        !.status = "running",
                                                        !.concepts = n]) :
                              pageId \in PageIds, n \in BatchSizes}, MaxRuns)
    /\ [][\E r \in DOMAIN runs : CreatePage(r)]_vars

\* part_003:77-242: its webhook and runs when every awaited call of a started
\* run is answered or fails, so that the step that follows the answer of run
\* r is taken once it stays possible; requests may stop arriving, so Webhook
\* carries no fairness
FairPipeline ==
    /\ InitPipeline /\ version = "part_003"
    /\ [][\/ Webhook
          \/ \E r \in DOMAIN runs :
                \/ RetrievePage(r) \/ QueryExisting(r) \/ GetEmailContent(r)
                \/ GetPrompt(r) \/ Generate(r) \/ CreatePage(r)
                \/ CreateFallback(r)]_vars
    /\ \A r \in 1..MaxRuns :
          WF_vars(/\ r \in DOMAIN runs
                  /\ \/ RetrievePage(r) \/ QueryExisting(r) \/ GetEmailContent(r)
                     \/ GetPrompt(r) \/ Generate(r) \/ CreatePage(r)
                     \/ CreateFallback(r))

-----------------------------------------------------------------------------
(* The webhook of part_004 (part_004:37-130) runs the pipeline inside the
   request handler: it awaits getEmailContent, getPromptFromNotion,
   generateTweets and createShortFormPages and answers the request
   afterwards.  The catch of the handler reads page_id, which is declared
   with let inside the try block: building the 500 answer throws a
   ReferenceError and no answer is sent. *)

\* part_004:37-93: the page id is body.page_id, body.data.id or body.id
\* (headers and query string are empty); 400 without one, else the handler
\* goes on to its await of getEmailContent
WebhookSync ==
    /\ Len(runs) < MaxRuns
    /\ \E body \in Bodies :
          LET Truthy(v) == v # Unset /\ v # ""
              pageId == IF Truthy(body.page_id) THEN body.page_id
                        ELSE IF Truthy(body.data_id) THEN body.data_id
                        ELSE IF Truthy(body.id) THEN body.id
                        ELSE Unset
          IN  IF pageId = Unset
              THEN /\ responses' = Append(responses, <<[status |-> 400, page_id |-> Unset]>>)
                   /\ runs' = Append(runs, NotStarted)
              ELSE /\ responses' = Append(responses, <<>>)
                   /\ runs' = Append(runs, [NotStarted EXCEPT !.pageId = pageId,
                                               !.pc = "content", !.status = "running"])
    /\ UNCHANGED <<shortform, linkVars, valVars, extVars, parseVars, genVars>>

\* part_004:93-129: the awaited call of request r answers, and the handler
\* runs up to its next await or to its end
AwaitSync(r) ==
    LET run == runs[r]
        Answer == <<[status |-> 200, page_id |-> run.pageId]>>
        page == [email |-> run.pageId, run |-> r, concept |-> run.i + 1, error |-> FALSE]
        written == [run EXCEPT !.attempts = @ + 1, !.i = @ + 1,
                               !.results = Append(@, [concept |-> run.i + 1,
                                                      error |-> FALSE])]
    IN  /\ \/ /\ run.pc = "content"
              /\ \/ runs' = [runs EXCEPT ![r] =
                                Finish(run, "failed", "Failed to fetch email content")]
                 \/ runs' = [runs EXCEPT ![r].pc = "prompt"]
              /\ UNCHANGED <<responses, shortform>>
           \/ /\ run.pc = "prompt"
              /\ runs' = [runs EXCEPT ![r].pc = "generate"]
              /\ UNCHANGED <<responses, shortform>>
           \/ /\ run.pc = "generate"
              /\ \/ /\ runs' = [runs EXCEPT ![r] =
                                   Finish([run EXCEPT !.calls = @ + 1], "failed",
                                          "Failed to generate tweets")]
                    /\ UNCHANGED responses
                 \/ \E n \in BatchSizes :
                       IF n = 0
                       THEN /\ runs' = [runs EXCEPT ![r] =
                                          Finish([run EXCEPT !.calls = @ + 1], "success", "")]
                            /\ responses' = [responses EXCEPT ![r] = Answer]
                       ELSE /\ runs' = [runs EXCEPT ![r] =
                                          [run EXCEPT !.calls = @ + 1, !.concepts = n,
                                                      !.pc = "create"]]
                            /\ UNCHANGED responses
              /\ UNCHANGED shortform
           \/ /\ run.pc = "create"
              /\ \/ /\ runs' = [runs EXCEPT ![r] =
                                   Finish([run EXCEPT !.attempts = @ + 1], "failed",
                                          "Failed to create pages")]
                    /\ UNCHANGED <<responses, shortform>>
                 \/ /\ shortform' = shortform \cup {page}
                    /\ IF written.i >= written.concepts
                       THEN /\ runs' = [runs EXCEPT ![r] = Finish(written, "success", "")]
                            /\ responses' = [responses EXCEPT ![r] = Answer]
                       ELSE /\ runs' = [runs EXCEPT ![r] = written]
                            /\ UNCHANGED responses
        /\ UNCHANGED <<linkVars, valVars, extVars, parseVars, genVars>>

SpecSync ==
    /\ version = "part_004" /\ envLink = Unset
    /\ Idle({"cta", "validate", "extract", "parse", "pipeline", "generate"})
    /\ [][WebhookSync \/ \E r \in DOMAIN runs : AwaitSync(r)]_vars

-----------------------------------------------------------------------------
(* Generation: generateTweetsWithEnhancedQuality of part_003 and the
   EnhancedContentGenerator it drives.  Every stage awaits one call of
   anthropic.messages.create; an action is the answer to the awaited call
   and the code that runs up to the next call.  An answer is known by what
   the stages do with it: whether the call failed, whether extractJSON (or
   JSON.parse) gets a value out of the text, and what that value is: the
   object the prompt asked for, another object, or null. *)

Replies ==
    LET Reply(failed, parses, shape, needsRefinement) ==
            [failed |-> failed, parses |-> parses, shape |-> shape,
             needsRefinement |-> needsRefinement]
    IN  {Reply(TRUE, FALSE, "none", FALSE),
         Reply(FALSE, FALSE, "none", FALSE),
         Reply(FALSE, TRUE, "expected", TRUE),
         Reply(FALSE, TRUE, "expected", FALSE),
         Reply(FALSE, TRUE, "other", FALSE),
         Reply(FALSE, TRUE, "null", FALSE)}

\* an async function's promise: fulfilled with a value or rejected
Resolves(v) == [threw |-> FALSE, value |-> v, error |-> ""]

Rejects(message) == [threw |-> TRUE, value |-> NoBatch, error |-> message]

\* the batch extractJSON returns for a reply
BatchFrom(stage, reply) ==
    [from |-> stage,
     shape |-> IF reply.shape = "expected" THEN "tweetConcepts" ELSE reply.shape,
     validated |-> FALSE]

\* analyzeContent from the answer on: the parsed analysis, or the default
\* one; an analysis is complete when it has the recommendedTemplates and
\* keyInsights arrays the later prompts join
\* an analysis without the default, thrown like the draft's
analyzeContent_ThrowsUnparsed(reply) ==
    IF reply.failed THEN Rejects("service error")
    ELSE IF reply.parses
         THEN Resolves([from |-> "service", complete |-> reply.shape = "expected"])
         ELSE Rejects("Failed to analyze content")

analyzeContent(reply) ==
    IF reply.failed THEN Rejects("service error")
    ELSE IF reply.parses
         THEN Resolves([from |-> "service", complete |-> reply.shape = "expected"])
         ELSE Resolves([from |-> "default", complete |-> TRUE])

generateInitialDraft(reply) ==
    IF reply.failed THEN Rejects("service error")
    ELSE IF reply.parses THEN Resolves(BatchFrom(Stage.Draft, reply))
         ELSE Rejects("Failed to generate initial draft")

\* the parsed assessment, or the default one with needsRefinement: true; a
\* parsed object without the field reads as undefined
assessQuality(reply) ==
    IF reply.failed THEN Rejects("service error")
    ELSE IF reply.parses
         THEN Resolves([from |-> "service", isNull |-> reply.shape = "null",
                        needsRefinement |-> reply.shape = "expected" /\ reply.needsRefinement])
         ELSE Resolves([from |-> "default", isNull |-> FALSE, needsRefinement |-> TRUE])

\* a refinement that throws on an answer that does not parse, as the draft does
refineContent_ThrowsUnparsed(batch, reply) ==
    IF reply.failed THEN Rejects("service error")
    ELSE IF reply.parses THEN Resolves(BatchFrom(Stage.Refine, reply))
         ELSE Rejects("Failed to refine content")

refineContent(batch, reply) ==
    IF reply.failed THEN Rejects("service error")
    ELSE IF reply.parses THEN Resolves(BatchFrom(Stage.Refine, reply))
         ELSE Resolves(batch)

enhanceCTAs(batch, reply) ==
    IF reply.failed THEN Rejects("service error")
    ELSE IF reply.parses THEN Resolves(BatchFrom(Stage.Enhance, reply))
         ELSE Resolves(batch)

\* finalValidation maps over tweetData.tweetConcepts
ValidatedBatch(batch) ==
    IF batch.shape = "tweetConcepts"
    THEN Resolves([batch EXCEPT !.validated = TRUE])
    ELSE Rejects("TypeError")

fallbackGeneration(reply) ==
    IF reply.failed THEN Rejects("service error")
    ELSE IF reply.parses THEN Resolves(BatchFrom(Stage.Fallback, reply))
         ELSE Rejects("Complete generation failure")

\* part_003:269-286: the single pass of generateTweetsWithEnhancedQuality
SinglePass(reply) ==
    IF reply.failed THEN Rejects("service error")
    ELSE IF reply.parses THEN Resolves(BatchFrom(Stage.Single, reply))
         ELSE Rejects("Failed to parse generation response")

\* part_001:362-461: the text of the answer goes to
\* parseFullStructuredResponse, which returns a batch for every text; any
\* error is caught and answered with the one-concept batch titled 'Error in
\* Tweet Generation'
generateTweetsWithFullStructure(reply) ==
    IF reply.failed
    THEN Resolves([from |-> "catch (error)", shape |-> "tweetConcepts", validated |-> FALSE])
    ELSE Resolves([from |-> Stage.Full, shape |-> "tweetConcepts", validated |-> FALSE])

\* the awaited call of the stage is answered: the call failed, or the text
\* of the answer parsed or not
Answered(g, reply) ==
    [g EXCEPT !.answers[g.pc] = IF reply.failed THEN "failed"
                                ELSE IF reply.parses THEN "parsed" ELSE "unparsed"]

\* generateTweetsWithMultiPass, catch (error): return this.fallbackGeneration,
\* which makes its service call
Catch(g, error) ==
    [g EXCEPT !.caught = Append(@, error), !.pc = Stage.Fallback,
              !.started = Append(@, Stage.Fallback), !.calls[Stage.Fallback] = @ + 1]

\* a stage is entered and makes its service call; generateInitialDraft and
\* enhanceCTAs join arrays of the analysis while they build their prompt,
\* before the call
Call(g, stage) ==
    IF stage \in {Stage.Draft, Stage.Enhance} /\ ~g.analysis.complete
    THEN Catch([g EXCEPT !.started = Append(@, stage)], "TypeError")
    ELSE [g EXCEPT !.pc = stage, !.started = Append(@, stage), !.calls[stage] = @ + 1]

\* generateTweetsWithEnhancedQuality returns the batch or throws
Settle(g, promise) ==
    IF promise.threw THEN [g EXCEPT !.pc = "done", !.outcome = "thrown", !.error = promise.error]
    ELSE [g EXCEPT !.pc = "done", !.outcome = "returned", !.result = promise.value]

\* part_003:245-268; part_001:362-418
GenerateTweets ==
    /\ gen.pc = "idle"
    /\ gen' = IF version = "part_001" THEN Call(gen, Stage.Full)
              ELSE IF gen.multi THEN Call(gen, Stage.Analyze)
              ELSE Call(gen, Stage.Single)
    /\ UNCHANGED <<linkVars, valVars, extVars, parseVars, pipeVars>>

\* test-notion-page.js:207-211
AnalyzeReply ==
    /\ gen.pc = Stage.Analyze
    /\ \E reply \in Replies :
          LET g == Answered(gen, reply)
              analysis == analyzeContent(reply)
          IN  gen' = IF analysis.threw THEN Catch(g, analysis.error)
                     ELSE Call([g EXCEPT !.analysis = analysis.value], Stage.Draft)
    /\ UNCHANGED <<linkVars, valVars, extVars, parseVars, pipeVars>>

\* test-notion-page.js:211-215
DraftReply ==
    /\ gen.pc = Stage.Draft
    /\ \E reply \in Replies :
          LET g == Answered(gen, reply)
              initialDraft == generateInitialDraft(reply)
          IN  gen' = IF initialDraft.threw THEN Catch(g, initialDraft.error)
                     ELSE Call([g EXCEPT !.initialDraft = initialDraft.value],
                               Stage.Assess)
    /\ UNCHANGED <<linkVars, valVars, extVars, parseVars, pipeVars>>

\* the refinement called whatever the assessment says
AssessReply_AlwaysRefines ==
    /\ gen.pc = Stage.Assess
    /\ \E reply \in Replies :
          LET g == Answered(gen, reply)
              qualityAssessment == assessQuality(reply)
              assessed == [g EXCEPT !.assessment =
                              [from |-> qualityAssessment.value.from,
                               needsRefinement |-> qualityAssessment.value.needsRefinement]]
          IN  gen' = IF qualityAssessment.threw THEN Catch(g, qualityAssessment.error)
                     ELSE IF qualityAssessment.value.isNull
                          THEN Catch(assessed, "TypeError")
                     ELSE Call(assessed, Stage.Refine)
    /\ UNCHANGED <<linkVars, valVars, extVars, parseVars, pipeVars>>

\* test-notion-page.js:215-229: refine when the assessment asks for it,
\* else the draft goes on as it is
AssessReply ==
    /\ gen.pc = Stage.Assess
    /\ \E reply \in Replies :
          LET g == Answered(gen, reply)
              qualityAssessment == assessQuality(reply)
              assessed == [g EXCEPT !.assessment =
                              [from |-> qualityAssessment.value.from,
                               needsRefinement |-> qualityAssessment.value.needsRefinement]]
          IN  gen' = IF qualityAssessment.threw THEN Catch(g, qualityAssessment.error)
                     ELSE IF qualityAssessment.value.isNull
                          THEN Catch(assessed, "TypeError")
                     ELSE IF qualityAssessment.value.needsRefinement
                          THEN Call(assessed, Stage.Refine)
                     ELSE Call([assessed EXCEPT !.refinedContent = gen.initialDraft],
                               Stage.Enhance)
    /\ UNCHANGED <<linkVars, valVars, extVars, parseVars, pipeVars>>

\* test-notion-page.js:221-229
RefineReply ==
    /\ gen.pc = Stage.Refine
    /\ \E reply \in Replies :
          LET g == Answered(gen, reply)
              refinedContent == refineContent(gen.initialDraft, reply)
          IN  gen' = IF refinedContent.threw THEN Catch(g, refinedContent.error)
                     ELSE Call([g EXCEPT !.refinedContent = refinedContent.value],
                               Stage.Enhance)
    /\ UNCHANGED <<linkVars, valVars, extVars, parseVars, pipeVars>>

\* the enhanced batch returned without finalValidation
EnhanceReply_ReturnsUnvalidated ==
    /\ gen.pc = Stage.Enhance
    /\ \E reply \in Replies :
          LET g == Answered(gen, reply)
              finalContent == enhanceCTAs(gen.refinedContent, reply)
          IN  gen' = IF finalContent.threw THEN Catch(g, finalContent.error)
                     ELSE Settle(g, finalContent)
    /\ UNCHANGED <<linkVars, valVars, extVars, parseVars, pipeVars>>

\* test-notion-page.js:229-237 and part_003:255-260: finalValidation awaits
\* nothing, and the validated batch is what the whole call returns;
\* tweetData is the content of the batch finalValidation is given
EnhanceReply ==
    /\ gen.pc = Stage.Enhance
    /\ \E reply \in Replies :
          LET g == Answered(gen, reply)
              finalContent == enhanceCTAs(gen.refinedContent, reply)
              validating == [g EXCEPT !.started = Append(@, Stage.Validate)]
              validatedContent == ValidatedBatch(finalContent.value)
          IN  IF finalContent.threw
              THEN gen' = Catch(g, finalContent.error) /\ UNCHANGED valVars
              ELSE IF validatedContent.threw
              THEN gen' = Catch(validating, validatedContent.error) /\ UNCHANGED valVars
              ELSE /\ gen' = Settle(validating, validatedContent)
                   /\ tweetData' = finalValidation(tweetData)
                   /\ tweetDataPrev' = tweetData
                   /\ valPasses' = valPasses + 1
    /\ UNCHANGED <<linkVars, extVars, parseVars, pipeVars>>

\* test-notion-page.js:242 and part_003:255-268: the batch of the fallback
\* is returned as it is; its failure is caught by the caller, which goes on
\* to its own single pass
FallbackReply ==
    /\ gen.pc = Stage.Fallback
    /\ \E reply \in Replies :
          LET g == Answered(gen, reply)
              result == fallbackGeneration(reply)
          IN  gen' = IF result.threw
                     THEN Call([g EXCEPT !.caught = Append(@, result.error)],
                               Stage.Single)
                     ELSE Settle(g, result)
    /\ UNCHANGED <<linkVars, valVars, extVars, parseVars, pipeVars>>

\* part_003:269-286
SinglePassReply ==
    /\ gen.pc = Stage.Single
    /\ \E reply \in Replies : gen' = Settle(Answered(gen, reply), SinglePass(reply))
    /\ UNCHANGED <<linkVars, valVars, extVars, parseVars, pipeVars>>

\* part_001:414-461
FullStructureReply ==
    /\ gen.pc = Stage.Full
    /\ \E reply \in Replies :
          gen' = Settle(Answered(gen, reply), generateTweetsWithFullStructure(reply))
    /\ UNCHANGED <<linkVars, valVars, extVars, parseVars, pipeVars>>

\* part_001 has the single call of generateTweetsWithFullStructure; part_003
\* reads ENABLE_MULTIPASS
InitGenerate ==
    /\ version \in {"part_001", "part_003"}
    /\ envLink = Unset
    /\ gen \in {[NotCalled EXCEPT !.multi = enabled] :
                   enabled \in IF version = "part_003" THEN BOOLEAN ELSE {FALSE}}
    /\ Idle({"cta", "validate", "extract", "parse", "pipeline"})

NextGenerate ==
    \/ GenerateTweets
    \/ AnalyzeReply
    \/ DraftReply
    \/ AssessReply
    \/ RefineReply
    \/ EnhanceReply
    \/ FallbackReply
    \/ SinglePassReply
    \/ FullStructureReply

SpecGenerate == InitGenerate /\ [][NextGenerate]_vars

-----------------------------------------------------------------------------
(* The batches handed to persistence: the batch a structured-response
   generator returns (part_001, index.js: parsed, its CTAs normalized, or
   the batch of its catch; index.js with Skills: parsed, or no batch when
   generateTweetsWithSkills throws), and the batch
   generateTweetsWithEnhancedQuality of part_003 returns: tweetData is the
   content of the batch in the reply that ends up returned, validated when it
   came through the stages and as it was read when it is the reply of the
   single pass or of fallbackGeneration.  Such a reply carries a batch of at
   most one concept here. *)

\* a generator is answered; the stages are those of part_003
NextBatches ==
    \/ ParseFull
    \/ ParseEnhanced
    \/ ParseSkill
    \/ ReturnErrorConcept
    \/ version = "part_003" /\ GenerateTweets
    \/ version = "part_003" /\ AnalyzeReply
    \/ version = "part_003" /\ DraftReply
    \/ version = "part_003" /\ AssessReply
    \/ version = "part_003" /\ RefineReply
    \/ version = "part_003" /\ EnhanceReply
    \/ version = "part_003" /\ FallbackReply
    \/ version = "part_003" /\ SinglePassReply

SpecBatches ==
    /\ \/ InitParse
       \/ /\ version = "part_003" /\ envLink = Unset
          /\ gen \in {[NotCalled EXCEPT !.multi = enabled] : enabled \in BOOLEAN}
          /\ tweetData \in {data \in TweetDataInputs : Len(data.tweetConcepts) <= 1}
          /\ tweetDataPrev = tweetData
          /\ valPasses = 0
          /\ Idle({"cta", "extract", "parse", "pipeline"})
    /\ [][NextBatches]_vars

-----------------------------------------------------------------------------
(* C1: after finalValidation every post and every CTA of the batch has at
   most 500 characters, whatever lengths the generative model returned. *)
C1_SizeInvariant ==
    valPasses >= 1 =>
        \A i \in 1..Len(tweetData.tweetConcepts) :
            /\ Len(tweetData.tweetConcepts[i].cta) <= 500
            /\ \A j \in 1..Len(tweetData.tweetConcepts[i].mainContent.posts) :
                   Len(tweetData.tweetConcepts[i].mainContent.posts[j]) <= 500

\* an over-long post and an over-long CTA went through finalValidation once
C1_Witness ==
    /\ valPasses = 1
    /\ \E i \in 1..Len(tweetDataPrev.tweetConcepts) :
        /\ Len(tweetDataPrev.tweetConcepts[i].cta) > 500
        /\ \E j \in 1..Len(tweetDataPrev.tweetConcepts[i].mainContent.posts) :
               Len(tweetDataPrev.tweetConcepts[i].mainContent.posts[j]) > 500

-----------------------------------------------------------------------------
(* C2: every CTA that went through the CTA link normalizer ends with the
   configured link token, and no character follows it. *)
C2_LinkIsFinalToken ==
    linkPasses >= 1 => EndsWith(cta, NewsletterLink(version, envLink))

(* C3: normalizing an already-normalized batch changes nothing: a second
   pass of the CTA link substitution leaves the CTA as the first pass made
   it, and the truncation applied to a truncated batch leaves it as it
   was. *)
C3_NormalizeIdempotent ==
    /\ linkPasses = 2 => cta = ctaPrev
    /\ valPasses = 1 => finalValidation(tweetData) = tweetData

-----------------------------------------------------------------------------
(* C5: extract fails only when no strategy, tried in order, yields a
   candidate that parses; a candidate that is found but does not parse does
   not end the cascade, and the first strategy whose candidate parses gives
   the result. *)
C5_CascadeTriesEveryStrategy ==
    LET \* the candidate each strategy of extractJSON takes from the text, in order
        Strategies == <<"direct", "json fence", "javascript fence", "object span", "marker">>
        Candidate(s, strategy) ==
            CASE strategy = "direct" -> [found |-> TRUE, body |-> s]
              [] strategy = "json fence" -> FencedBlock(s, Piece.FenceJson)
              [] strategy = "javascript fence" -> FencedBlock(s, Piece.FenceJs)
              [] strategy = "object span" -> ObjectSpan(s)
              [] strategy = "marker" -> MarkerSpan(s)
        Parses(s, k) ==
            /\ Candidate(s, Strategies[k]).found
            /\ JSONParse(Candidate(s, Strategies[k]).body).ok
        parsing == {k \in 1..Len(Strategies) : Parses(text, k)}
    IN  extraction # NotRun =>
            IF parsing = {} THEN ~extraction.ok
            ELSE /\ extraction.ok
                 /\ extraction.value =
                        JSONParse(Candidate(text, Strategies[FirstIndex(parsing)]).body).value

(* C6: data in a fenced block, valid but for one trailing comma
   before a closing brace, is extracted successfully. *)
C6_TrailingCommaRepaired ==
    (extraction # NotRun /\ text \in TrailingCommaFenced) => extraction.ok

-----------------------------------------------------------------------------
(* C4: a concept whose posts list is empty is dropped, so no
   concept of a batch handed to persistence has an empty posts list,
   whether the batch comes from a parser or from the final validation. *)
C4_EmptyPostsDropped ==
    /\ parsed.done =>
           \A i \in 1..Len(parsed.tweetConcepts) :
               Len(parsed.tweetConcepts[i].mainContent.posts) > 0
    /\ (valPasses >= 1 \/ (gen.outcome = "returned" /\ gen.result.shape = "tweetConcepts")) =>
           \A i \in 1..Len(tweetData.tweetConcepts) :
               Len(tweetData.tweetConcepts[i].mainContent.posts) > 0

-----------------------------------------------------------------------------
(* C7: a response with N concept headings parses into exactly N
   records in heading order, and a section without labelled sub-sections is
   replaced by a record flagged as a parse error. *)
C7_ConceptIsolation ==
    (parsed.done /\ version \in {"part_001", "index"} /\ sections # <<>>) =>
        /\ Len(parsed.tweetConcepts) = Len(sections)
        /\ \A k \in 1..Len(parsed.tweetConcepts) :
               /\ parsed.tweetConcepts[k].number = k
               /\ (k <= Len(sections) /\ sections[k] = "unlabelled") =>
                      parsed.tweetConcepts[k].mainContent.posts = <<Default.Content>>

-----------------------------------------------------------------------------
(* C8 as stated: for non-empty input the parser never returns an empty
   batch, and when no concept parses it returns exactly one one-post concept
   whose post is the first 500 characters of the input. *)
C8_NeverEmptyBatch ==
    (parsed.done /\ resultText # <<>>) =>
        /\ Len(parsed.tweetConcepts) >= 1
        /\ (sections = <<>> /\ (version = "index" => TweetLikeLines(resultText) = <<>>)) =>
               /\ Len(parsed.tweetConcepts) = 1
               /\ parsed.tweetConcepts[1].mainContent.posts = <<Substring(resultText, 0, 500)>>

(* C8 as amended: parseFullStructuredResponse and
   parseEnhancedStructuredResponse never return an empty batch.  For input
   without a concept heading, parseFullStructuredResponse returns one
   one-post concept whose post is the first 500 characters of the input with
   the white space at both ends trimmed off; parseEnhancedStructuredResponse
   returns one to three one-post concepts, either one per tweet-like line
   (a line of 51 to 499 characters) or the single 'Extracted Concept' whose
   post is the first 400 characters trimmed.  parseSkillMarkdownOutput has no
   fallback: for a text without a concept heading that is not empty,
   generateTweetsWithSkills returns an empty batch, and for the empty text it
   throws and returns no batch. *)
C8_FallbackPerParser ==
    /\ (version = "skills" /\ resultText = <<>>) => ~parsed.done
    /\ parsed.error # "" =>
           /\ version = "skills" /\ resultText = <<>> /\ parsed.tweetConcepts = <<>>
           /\ parsed.error \in {"No content in Skills API response",
                                "No text content in Skills API response"}
    /\ parsed.done =>
        LET out == parsed.tweetConcepts
            lines == SplitLines(resultText)
        IN  /\ version \in {"part_001", "index"} => Len(out) >= 1
            /\ (version = "part_001" /\ sections = <<>>) =>
                   /\ Len(out) = 1
                   /\ out[1].mainContent.posts = <<Trim(Substring(resultText, 0, 500))>>
            /\ (version = "index" /\ sections = <<>>) =>
                   /\ Len(out) \in 1..3
                   /\ \A j \in 1..Len(out) : Len(out[j].mainContent.posts) = 1
                   /\ IF out[1].title = ExtractedConcept(resultText, envLink).title
                      THEN /\ Len(out) = 1
                           /\ out[1].mainContent.posts[1] = Trim(Substring(resultText, 0, 400))
                      ELSE \A j \in 1..Len(out) :
                               /\ Len(out[j].mainContent.posts[1]) \in 51..499
                               /\ \E k \in 1..Len(lines) :
                                      out[j].mainContent.posts[1] = Trim(lines[k])
            /\ (version = "skills" /\ sections = <<>>) =>
                   (resultText # <<>> /\ out = <<>>)

\* input without heading, longer than 500 characters, starting with a space:
\* the one post is shorter than the first 500 characters
C8_Witness ==
    /\ parsed.done
    /\ version = "part_001"
    /\ sections = <<>>
    /\ Len(resultText) > 500
    /\ resultText[1] = " "
    /\ Len(parsed.tweetConcepts) = 1
    /\ Len(parsed.tweetConcepts[1].mainContent.posts[1]) = 499

-----------------------------------------------------------------------------
(* C9: a run whose idempotency guard found derived pages that reference its
   source id has ended with status skipped, has never called the generative
   service, has made no write attempt, and no page of the Short Form
   database was written by it. *)
C9_GuardSkips ==
    \A r \in DOMAIN runs :
        runs[r].existing # {} =>
            /\ runs[r].pc = "done"
            /\ runs[r].status = "skipped"
            /\ runs[r].calls = 0
            /\ runs[r].attempts = 0
            /\ runs[r].results = <<>>
            /\ ~\E page \in shortform : page.run = r

\* a run was skipped because its guard found the pages an earlier run wrote
C9_Witness ==
    \E r \in DOMAIN runs :
        /\ runs[r].existing # {}
        /\ runs[r].status = "skipped"
        /\ runs[r].reason = "Email already processed"
        /\ \E page \in runs[r].existing : page.email = runs[r].pageId /\ page.run # r

(* C10: the guard and the writes of a run are separate round trips, so two
   runs for one source id can both be answered "no page yet" and both write
   their batch.  Whenever the Short Form database holds pages of two runs
   for one source id, the guard of each was answered before the other run
   had written a page: what each guard saw is empty, and so holds no page
   of the other. *)
C10_DuplicatesOnlyThroughRace ==
    \A r1, r2 \in DOMAIN runs :
        ( /\ r1 # r2
          /\ runs[r1].pageId = runs[r2].pageId
          /\ \E page \in shortform : page.run = r1
          /\ \E page \in shortform : page.run = r2 )
        => /\ ~\E page \in runs[r1].existing : page.run = r2
           /\ ~\E page \in runs[r2].existing : page.run = r1
           /\ runs[r1].existing = {}
           /\ runs[r2].existing = {}

\* two runs for one source id both passed the guard, both completed, and the
\* Short Form database holds the batch of each
C10_Witness ==
    \E r1, r2 \in DOMAIN runs :
        /\ r1 # r2
        /\ runs[r1].pageId = runs[r2].pageId
        /\ runs[r1].status = "success" /\ runs[r2].status = "success"
        /\ runs[r1].existing = {} /\ runs[r2].existing = {}
        /\ \A r \in {r1, r2} :
              {page.concept : page \in {q \in shortform : q.run = r /\ ~q.error}} = {1, 2}

-----------------------------------------------------------------------------
(* C11: once an exception inside multi-pass mode has started the fallback,
   single-pass generation is called once, its batch is the one returned,
   and when it fails the failure is thrown to the caller of the generation
   with no further generation call. *)
C11_FallbackOnceThenPropagate ==
    (gen.calls[Stage.Fallback] >= 1 /\ gen.pc # Stage.Fallback) =>
        /\ gen.pc = "done"
        /\ gen.calls[Stage.Fallback] = 1
        /\ gen.calls[Stage.Single] = 0
        /\ gen.outcome = "returned" => gen.result.from = Stage.Fallback
        /\ gen.outcome = "thrown" => gen.error \in {"service error", "Complete generation failure"}

-----------------------------------------------------------------------------
(* C12 as claimed: when the output of the Draft stage or of the Refine stage
   cannot be parsed, no later multi-pass stage starts and the fallback is
   called. *)
C12_DraftOrRefineFailureFatal ==
    /\ gen.answers[Stage.Draft] = "unparsed" =>
          /\ gen.calls[Stage.Fallback] = 1
          /\ \A i \in 1..Len(gen.started) :
                gen.started[i] \notin {Stage.Assess, Stage.Refine, Stage.Enhance, Stage.Validate}
    /\ gen.answers[Stage.Refine] = "unparsed" =>
          /\ gen.calls[Stage.Fallback] = 1
          /\ \A i \in 1..Len(gen.started) :
                gen.started[i] \notin {Stage.Enhance, Stage.Validate}

(* C12 as amended: a Draft stage whose output cannot be parsed is fatal to
   multi-pass mode: the error 'Failed to generate initial draft' is caught,
   no later multi-pass stage starts and the fallback is called.  A Refine
   stage whose output cannot be parsed is not: the draft it was given is
   the refined content, and EnhanceCTA is called on it. *)
C12_DraftFatalRefineKeepsDraft ==
    /\ gen.answers[Stage.Draft] = "unparsed" =>
          /\ gen.calls[Stage.Fallback] = 1
          /\ gen.caught[1] = "Failed to generate initial draft"
          /\ \A i \in 1..Len(gen.started) :
                gen.started[i] \notin {Stage.Assess, Stage.Refine, Stage.Enhance, Stage.Validate}
    /\ gen.answers[Stage.Refine] = "unparsed" =>
          /\ gen.refinedContent = gen.initialDraft
          /\ gen.calls[Stage.Enhance] = 1
          /\ gen.caught = <<>> => gen.calls[Stage.Fallback] = 0

\* the refinement did not parse, and the draft came out of the multi-pass
\* run enhanced and validated
C12_Witness ==
    /\ gen.answers[Stage.Refine] = "unparsed"
    /\ gen.outcome = "returned"
    /\ gen.result.from = Stage.Enhance
    /\ gen.result.validated

-----------------------------------------------------------------------------
(* C13: when a call of the generative service failed, the generation ends
   by throwing to the pipeline run, which fails, and hands over no batch to
   persist. *)
C13_ServiceFailureFatal ==
    (gen.pc = "done" /\ \E s \in DOMAIN gen.answers : gen.answers[s] = "failed") =>
        /\ gen.outcome = "thrown"
        /\ gen.result = NoBatch

-----------------------------------------------------------------------------
(* C14: when the output of Analyze, Assess or EnhanceCTA does not parse, the
   stage answers with its default (the generic analysis; the assessment
   with needsRefinement true; the batch it was given) and the next stage
   runs on it: Draft after Analyze, Refine after Assess, FinalValidate after
   EnhanceCTA, whose validated batch is returned when it is a batch. *)
C14_StageDefaults ==
    /\ gen.answers[Stage.Analyze] = "unparsed" =>
          /\ gen.analysis = [from |-> "default", complete |-> TRUE]
          /\ gen.calls[Stage.Draft] = 1
    /\ gen.answers[Stage.Assess] = "unparsed" =>
          /\ gen.assessment = [from |-> "default", needsRefinement |-> TRUE]
          /\ gen.calls[Stage.Refine] = 1
    /\ gen.answers[Stage.Enhance] = "unparsed" =>
          /\ \E i \in 1..Len(gen.started) : gen.started[i] = Stage.Validate
          /\ gen.refinedContent.shape = "tweetConcepts" =>
                /\ gen.calls[Stage.Fallback] = 0
                /\ gen.outcome = "returned"
                /\ gen.result = [gen.refinedContent EXCEPT !.validated = TRUE]

\* a run in which the three stages all fell back on their default and that
\* returned the refined batch
C14_Witness ==
    /\ \A s \in {Stage.Analyze, Stage.Assess, Stage.Enhance} : gen.answers[s] = "unparsed"
    /\ gen.outcome = "returned"
    /\ gen.result.from = Stage.Refine

-----------------------------------------------------------------------------
(* C15: within one generation every stage calls the generative service at
   most once, and single-pass generation, whether it runs as the fallback
   of multi-pass mode or as the single pass, is called at most once. *)
C15_NoRetry ==
    /\ \A s \in DOMAIN gen.calls : gen.calls[s] <= 1
    /\ gen.calls[Stage.Fallback] + gen.calls[Stage.Single] <= 1

-----------------------------------------------------------------------------
(* C16: the multi-pass stages of a run start in the order Analyze, Draft,
   Assess, Refine (when asked for), EnhanceCTA, FinalValidate, each after
   the call of the one before it was answered, and a batch that comes out
   of multi-pass mode was last gone over by FinalValidate. *)
C16_StageOrder ==
    LET MultiPass == {Stage.Analyze, Stage.Draft, Stage.Assess, Stage.Refine,
                      Stage.Enhance, Stage.Validate}
        Follows == {<<Stage.Analyze, Stage.Draft>>, <<Stage.Draft, Stage.Assess>>,
                    <<Stage.Assess, Stage.Refine>>, <<Stage.Assess, Stage.Enhance>>,
                    <<Stage.Refine, Stage.Enhance>>, <<Stage.Enhance, Stage.Validate>>}
    IN  /\ \A i \in 1..Len(gen.started) :
              gen.started[i] \in MultiPass =>
                  IF i = 1 THEN gen.started[i] = Stage.Analyze
                  ELSE /\ <<gen.started[i - 1], gen.started[i]>> \in Follows
                       /\ gen.answers[gen.started[i - 1]] = "parsed"
                          \/ gen.answers[gen.started[i - 1]] = "unparsed"
        /\ (gen.outcome = "returned" /\ gen.result.from \in MultiPass) =>
              /\ gen.started[Len(gen.started)] = Stage.Validate
              /\ gen.result.validated

\* a run that went through the six stages and returned
C16_Witness ==
    /\ gen.outcome = "returned"
    /\ gen.started = <<Stage.Analyze, Stage.Draft, Stage.Assess, Stage.Refine,
                       Stage.Enhance, Stage.Validate>>

-----------------------------------------------------------------------------
(* C17: Refine is called at most once in a run, and only when the assessment
   has needsRefinement true; when the assessment does not, Refine is not
   called and the draft is what EnhanceCTA is called on. *)
C17_RefineOnlyWhenAsked ==
    /\ gen.calls[Stage.Refine] <= 1
    /\ gen.calls[Stage.Refine] = 1 => gen.assessment.needsRefinement
    /\ (gen.assessment.from # "none" /\ ~gen.assessment.needsRefinement) =>
          /\ gen.calls[Stage.Refine] = 0
          /\ gen.calls[Stage.Enhance] = 1 \/ gen.caught # <<>>
          /\ gen.calls[Stage.Enhance] = 1 => gen.refinedContent = gen.initialDraft

\* the assessment asked for no refinement and the draft came out enhanced
C17_Witness ==
    /\ gen.assessment = [from |-> "service", needsRefinement |-> FALSE]
    /\ gen.calls[Stage.Refine] = 0
    /\ gen.refinedContent = gen.initialDraft
    /\ gen.outcome = "returned"
    /\ gen.result.from = Stage.Enhance

-----------------------------------------------------------------------------
(* C18: every request whose page id was resolved has its answer, HTTP 200
   with that page id, from the moment its pipeline run exists, whatever
   the run has done so far. *)
C18_AcknowledgedBeforePipeline ==
    \A r \in DOMAIN runs :
        runs[r].pageId # Unset =>
            responses[r] = <<[status |-> 200, page_id |-> runs[r].pageId]>>

-----------------------------------------------------------------------------
(* C19: a rejected write does not end the page loop: a run that made a write
   attempt and has ended went through every concept of its batch, and ended
   with status success. *)
C19_EveryRecordAttempted ==
    \A r \in DOMAIN runs :
        (runs[r].pc = "done" /\ runs[r].attempts > 0) =>
            /\ runs[r].i = runs[r].concepts
            /\ runs[r].attempts >= runs[r].concepts
            /\ runs[r].status = "success"

-----------------------------------------------------------------------------
(* C20: in part_003, a run started after a run for the same source id had
   ended with status success does not get past the guard: it makes no
   generation call and no write, no page of the Short Form database is its
   own, and it ends skipped unless a Notion call of its own failed before. *)
C20_SkipAfterSuccess ==
    \A r \in DOMAIN runs :
        (version = "part_003" /\ runs[r].after # {}) =>
            /\ runs[r].pc \in {"retrieve", "query", "done"}
            /\ runs[r].status \in {"running", "skipped", "failed"}
            /\ runs[r].calls = 0
            /\ runs[r].attempts = 0
            /\ ~\E page \in shortform : page.run = r

-----------------------------------------------------------------------------
(* C21: in the batch a parser returns, the k-th concept has number k, so the
   numbers of a batch of n concepts are 1..n, each once. *)
C21_NumbersContiguous ==
    parsed.done =>
        \A k \in 1..Len(parsed.tweetConcepts) : parsed.tweetConcepts[k].number = k

(* C22: under FairPipeline, where every awaited call is answered or fails,
   from some point on every started run of processEmailAutomation has ended
   and stays ended with one of the statuses success, skipped or failed. *)
C22_EveryRunEnds ==
    <>[](\A r \in DOMAIN runs :
            runs[r].pc # "none" =>
                /\ runs[r].pc = "done"
                /\ runs[r].status \in {"success", "skipped", "failed"})

C22_Witness ==
    \E r \in DOMAIN runs :
        /\ runs[r].pc = "done"
        /\ runs[r].status = "success"
        /\ runs[r].attempts > runs[r].concepts

(* C23: for a skill output whose sections are all written as the skill
   documentation prescribes (heading '## POST #N:', a fenced post and the
   fenced CTA last), parseSkillMarkdownOutput returns one concept for each
   of these sections. *)
C23_DocumentedFormatParsed ==
    (/\ parsed.done
     /\ version = "skills"
     /\ \A k \in 1..Len(sections) : sections[k] = "post heading") =>
        Len(parsed.tweetConcepts) = Len(sections)

(* C24: a pass of ensureNewsletterLinkInCTA applies the first applicable of
   the rules (a) ends with the link: unchanged, (b) placeholder: substituted,
   (c) URL present: replaced by the link with nothing after it, (d) else the
   link appended after ': ' to the CTA without its trailing punctuation; so
   a CTA that matches none of (a)-(c) gets rule (d) and every result contains
   the link. *)
C24_OneRuleInOrder ==
    (version = "part_001" /\ linkPasses >= 1) =>
        LET link == NewsletterLink("part_001", envLink)
            a == EndsWith(ctaPrev, link)
            b == \/ Includes(ctaPrev, Literal.PlaceholderNewsletter)
                 \/ Includes(ctaPrev, Literal.PlaceholderLink)
            c == HasUrl(ctaPrev)
        IN  /\ a => cta = ctaPrev
            /\ (~a /\ ~b /\ c) => EndsWith(cta, link)
            /\ (~a /\ ~b /\ ~c) =>
                   cta = StripTrailingPunct(ctaPrev) \o Literal.ColonSpace \o link
            /\ Includes(cta, link)

(* C25: a CTA that ended with the link when it was given to finalValidation
   has at most 500 characters afterwards and still ends with the link: the
   cut of an over-long CTA does not remove or shorten the trailing link. *)
C25_CutKeepsLink ==
    valPasses >= 1 =>
        \A i \in 1..Len(tweetData.tweetConcepts) :
            EndsWith(tweetDataPrev.tweetConcepts[i].cta, NewsletterLink("index", Unset)) =>
                /\ Len(tweetData.tweetConcepts[i].cta) <= MaxChars
                /\ EndsWith(tweetData.tweetConcepts[i].cta, NewsletterLink("index", Unset))

(* C26: of a response with concept headings, the text before the first
   heading is dropped: parseStructuredTweetResponse returns one record for
   each heading and no record's title is taken from that text, whether the
   text is empty or not. *)
C26_PreambleDiscarded ==
    (parsed.done /\ version = "part_005" /\ sections # <<>>) =>
        /\ Len(parsed.tweetConcepts) = Len(sections)
        /\ \A k \in 1..Len(parsed.tweetConcepts) :
               \A preamble \in Preambles \ {<<>>} :
                   parsed.tweetConcepts[k].title # Trim(preamble)

(* C27: a batch that generateTweetsWithMultiPass returns, from its six stages
   or from the fallbackGeneration of its catch, went through finalValidation
   before it was returned. *)
C27_ReturnedBatchValidated ==
    (/\ gen.multi
     /\ gen.outcome = "returned"
     /\ gen.result.from \in {Stage.Analyze, Stage.Draft, Stage.Assess, Stage.Refine,
                             Stage.Enhance, Stage.Validate, Stage.Fallback}) =>
        gen.result.validated

(* C28: every webhook request has exactly one HTTP response, at every point
   of its run: 400 when no page id was resolved, and then no run was started
   for it, else 200 with the page id; the steps and the end of the run add no
   response. *)
C28_OneResponsePerRequest ==
    /\ Len(responses) = Len(runs)
    /\ \A r \in DOMAIN runs :
          /\ Len(responses[r]) = 1
          /\ responses[r][1].status \in {200, 400}
          /\ responses[r][1].status = 400 <=> runs[r].pageId = Unset
          /\ responses[r][1].status = 400 => runs[r] = NotStarted
          /\ responses[r][1].status = 200 => /\ responses[r][1].page_id = runs[r].pageId
                                            /\ runs[r].pc # "none"

\* a request answered 400 and a request answered 200 whose run has failed
\* after its awaits
C28_Witness ==
    \E q, r \in DOMAIN runs :
        /\ responses[q] = <<[status |-> 400, page_id |-> Unset]>>
        /\ responses[r][1].status = 200
        /\ runs[r].pc = "done"
        /\ runs[r].status = "failed"
        /\ runs[r].calls = 1

(* C29: createFullStructurePages makes at most two writes for a concept, the
   fallback page only after the full page was rejected, and records at most
   one result for it, in concept order: the results never outnumber the
   concepts of the batch. *)
C29_AtMostTwoWritesOneResult ==
    \A r \in DOMAIN runs :
        version \in {"index", "part_003"} =>
            /\ runs[r].attempts <= 2 * runs[r].i + (IF runs[r].pc = "fallback" THEN 1 ELSE 0)
            /\ runs[r].i <= runs[r].concepts
            /\ Len(runs[r].results) <= runs[r].i
            /\ \A j, k \in 1..Len(runs[r].results) :
                  j < k => runs[r].results[j].concept < runs[r].results[k].concept
            /\ \A page \in shortform :
                  (page.run = r /\ page.error) =>
                      [page EXCEPT !.error = FALSE] \notin shortform

\* a run over two concepts that has ended: the first page was written at
\* once, the second was rejected and its fallback page written
C29_Witness ==
    \E r \in DOMAIN runs :
        /\ version \in {"index", "part_003"}
        /\ runs[r].pc = "done"
        /\ runs[r].concepts = 2
        /\ runs[r].attempts = 3
        /\ runs[r].results = <<[concept |-> 1, error |-> FALSE],
                               [concept |-> 2, error |-> TRUE]>>

(* C30: a run for a page whose parent is not the E-mails database never gets
   past the read of the page: it has not queried the Short Form database, has
   made no generative call and no write, no page of the Short Form database is
   its own, and once the read was answered it has ended with status skipped. *)
C30_WrongParentSkipped ==
    \A r \in DOMAIN runs :
        (runs[r].pageId \in PageIds /\ ParentDatabase(runs[r].pageId) # "E-mails") =>
            /\ runs[r].pc \in {"retrieve", "done"}
            /\ runs[r].calls = 0
            /\ runs[r].attempts = 0
            /\ runs[r].results = <<>>
            /\ ~\E page \in shortform : page.run = r
            /\ (runs[r].pc = "done" /\ runs[r].reason # "Notion Access Error") =>
                  /\ runs[r].status = "skipped"
                  /\ runs[r].reason = "Page not in E-mails database"

\* a run for a page of another database has ended as skipped while a run for
\* a page of the E-mails database went on to write a page
C30_Witness ==
    \E q, r \in DOMAIN runs :
        /\ ParentDatabase(runs[r].pageId) # "E-mails"
        /\ runs[r].pc = "done"
        /\ runs[r].status = "skipped"
        /\ runs[q].attempts > 0

=============================================================================
